---- MODULE Spec2Model ----
(***************************************************************************)
(* A state-machine model of three parts of the WeKnowRust server:          *)
(*   - the stream managers (internal/stream): the in-memory manager and    *)
(*     the Redis manager behind interfaces.StreamManager;                  *)
(*   - ChatStream of the remote (OpenAI-compatible) and the Ollama chat    *)
(*     clients (internal/models/chat);                                     *)
(*   - enrichContentWithImageInfo of the INTO_CHAT_MESSAGE plugin.         *)
(* Each part has its own specification; the variables of the other parts   *)
(* keep their initial values in it.                                        *)
(***************************************************************************)
EXTENDS Integers, Sequences, FiniteSets, TLC

VARIABLES
    impl,           \* which manager NewStreamManager built: "memory" | "redis"
    activeStreams,  \* MemoryStreamManager.activeStreams: sessionID -> map object
    sessionMaps,    \* the heap of inner maps: map object -> (requestID -> stream)
    redis,          \* the Redis keyspace: key -> JSON payload or Nil
    timers,         \* the sleeping deletion goroutines, oldest first
    ret,            \* what the latest handler call returned
    client,         \* the Chat implementation ChatStream is called on
    pc,             \* where the ChatStream call and its goroutine stand
    out,            \* the events the goroutine has left to send, first first
    received,       \* the backend responses the goroutine got so far
    delivered,      \* the events the consumer read from streamChan
    cancelled,      \* ctx is cancelled
    consumer,       \* "receiving" | "stopped"
    original,       \* the passage content enrichContentWithImageInfo got
    imageInfoJSON,  \* its imageInfoJSON argument
    enriched,       \* its local content, enriched step by step
    imageInfos,     \* the parsed []types.ImageInfo
    imageInfoMap,   \* url -> image info
    matches,        \* the regexp matches found in the content
    processedURLs,  \* the urls of the matches handled so far
    nextMatch,      \* the index of the match the loop handles next
    epc,            \* where the call stands
    chatManage,     \* the *types.ChatManage PluginIntoChatMessage.OnEvent got
    passages,       \* its local passages
    ppc,            \* where the OnEvent call stands
    nextCalls,      \* how often it has called next()
    seenByNext,     \* chatManage.UserContent as next() found it
    nextReturned,   \* what next() returned
    pluginReturn,   \* what OnEvent returned
    now,            \* what time.Now() answers
    request,        \* the HTTP request the Auth middleware got
    tenantStore,    \* what tenantService.GetTenantByID answers per tenant id
    apc,            \* where the middleware stands
    httpResponse,   \* the response written
    aborted,        \* c.Abort() was called
    handlerRan,     \* c.Next() ran the downstream handlers
    ctxTenant,      \* the tenant id stored in the context
    chatConfig,     \* the ChatConfig the client was built from
    isStreamCall,   \* TRUE for ChatStream, FALSE for Chat
    requestBody,    \* the JSON body sent to the backend
    backendReply,   \* what the backend answers
    chatResponse,   \* what Chat returned
    cpc,            \* where the call is
    initRequest,    \* the InitializationRequest in the body
    initStore,      \* which of tenant, models and knowledge base exist
    mutations,      \* the create/update/delete calls made so far
    ctxErrors,      \* the errors attached with c.Error
    initResponse,   \* the response written
    ipc,            \* where Initialize stands
    stored,         \* the value Redis holds under the one key the callers share
    callers,        \* per concurrent call: the call, where it stands, the info it read
    downloadTasks,  \* the global map taskID -> *DownloadTask
    downloadReqs,   \* per DownloadOllamaModel request: its model, where it stands, its answer
    workers,        \* per task: where its downloadModelAsync goroutine stands
    testRequest,    \* the bound form of TestMultimodalFunction: chunk_size and chunk_overlap as sent
    readConfig,     \* the ReadConfig sent to DocReader, or none yet
    mmResponse,     \* the answer of the handler, or none yet
    metricInput,    \* the MetricInput handed to RecallMetric.Compute
    recallValue,    \* what Compute returned, as a fraction, or none yet
    sentenceText,   \* the text handed to splitSentences, as its characters
    sentences       \* what splitSentences returned, or none yet

streamVars == <<impl, activeStreams, sessionMaps, redis, timers, ret>>

chatVars == <<client, pc, out, received, delivered, cancelled, consumer>>

enrichVars == <<original, imageInfoJSON, enriched, imageInfos, imageInfoMap,
                matches, processedURLs, nextMatch, epc>>

pluginVars == <<chatManage, passages, ppc, nextCalls, seenByNext, nextReturned,
                pluginReturn, now>>

authVars == <<request, tenantStore, apc, httpResponse, aborted, handlerRan, ctxTenant>>

callVars == <<chatConfig, isStreamCall, requestBody, backendReply, chatResponse, cpc>>

initVars == <<initRequest, initStore, mutations, ctxErrors, initResponse, ipc>>

raceVars == <<stored, callers>>

dlVars == <<downloadTasks, downloadReqs, workers>>

mmVars == <<testRequest, readConfig, mmResponse>>

recallVars == <<metricInput, recallValue>>

sentenceVars == <<sentenceText, sentences>>

vars == <<streamVars, chatVars, enrichVars, pluginVars, authVars, callVars, initVars, raceVars, dlVars, mmVars, recallVars, sentenceVars>>

\* what the steps of one component leave alone
streamFrame == <<chatVars, enrichVars, pluginVars, authVars, callVars, initVars, raceVars, dlVars, mmVars, recallVars, sentenceVars>>
chatFrame == <<streamVars, enrichVars, pluginVars, authVars, callVars, initVars, raceVars, dlVars, mmVars, recallVars, sentenceVars>>
enrichFrame == <<streamVars, chatVars, pluginVars, authVars, callVars, initVars, raceVars, dlVars, mmVars, recallVars, sentenceVars>>
pluginFrame == <<streamVars, chatVars, enrichVars, authVars, callVars, initVars, raceVars, dlVars, mmVars, recallVars, sentenceVars>>
authFrame == <<streamVars, chatVars, enrichVars, pluginVars, callVars, initVars, raceVars, dlVars, mmVars, recallVars, sentenceVars>>
callFrame == <<streamVars, chatVars, enrichVars, pluginVars, authVars, initVars, raceVars, dlVars, mmVars, recallVars, sentenceVars>>
initFrame == <<streamVars, chatVars, enrichVars, pluginVars, authVars, callVars, raceVars, dlVars, mmVars, recallVars, sentenceVars>>
raceFrame == <<streamVars, chatVars, enrichVars, pluginVars, authVars, callVars, initVars, dlVars, mmVars, recallVars, sentenceVars>>
dlFrame == <<streamVars, chatVars, enrichVars, pluginVars, authVars, callVars, initVars, raceVars, mmVars, recallVars, sentenceVars>>
mmFrame == <<streamVars, chatVars, enrichVars, pluginVars, authVars, callVars, initVars, raceVars, dlVars, recallVars, sentenceVars>>
recallFrame == <<streamVars, chatVars, enrichVars, pluginVars, authVars, callVars, initVars, raceVars, dlVars, mmVars, sentenceVars>>
sentenceFrame == <<streamVars, chatVars, enrichVars, pluginVars, authVars, callVars, initVars, raceVars, dlVars, mmVars, recallVars>>

(***************************************************************************)
(* Bounds of the model.                                                    *)
(***************************************************************************)
MaxContent == 2     \* longest accumulated content, in delta symbols
MaxTimers == 1      \* most deletion goroutines asleep at once
MaxResponses == 2   \* most responses a chat backend streams in one call
MaxTokens == 2      \* longest passage content, in tokens
MaxInfos == 2       \* most entries of an image-info list

Sessions == {"s1"}
Requests == {"r1", "r2"}
Queries == {"q1"}
Symbols == {"x"}
\* the deltas a producer appends: the empty string or one symbol
Deltas == {<<>>} \cup {<<c>> : c \in Symbols}
\* types.References values: nil/empty, or a non-empty list
ReferenceLists == {<<>>, <<"ref1">>, <<"ref2">>}

\* inner map objects: at most one per session plus one per sleeping goroutine
\* are reachable at a time
MapIds == 1..(Cardinality(Sessions) + MaxTimers)
NoMap == 0
NoStream == [absent |-> TRUE]
Nil == [nil |-> TRUE]
ErrNil == "nil"

\* stream manager types
TypeMemory == "memory"
TypeRedis == "redis"

\* the delay of the deletion goroutine and the TTL NewStreamManager passes,
\* in seconds
DeleteDelay == 30
DefaultTTL == 3600

\* the record of the latest handler call: the method, its key, and the error
\* and the stream it returned
Returned(op, sessionID, requestID, info) ==
    [op |-> op, sessionID |-> sessionID, requestID |-> requestID,
     info |-> info, err |-> ErrNil]

\* no handler call is the latest step (a goroutine or Redis itself acted)
NoCall == [op |-> "none"]

IsPrefix(s, t) == Len(s) <= Len(t) /\ SubSeq(t, 1, Len(s)) = s

(***************************************************************************)
(* The in-memory manager.                                                  *)
(***************************************************************************)
EmptyMap == [r \in Requests |-> NoStream]

\* the inner maps some reference still reaches: activeStreams or the
\* closure of a sleeping deletion goroutine
Reachable(active, tms) ==
    {active[s] : s \in Sessions} \cup {tms[i].map : i \in 1..Len(tms)}

\* a stream of an inner map that activeStreams no longer holds: no handler
\* reads it again, only its presence counts (for len(sessionMap))
Detached == [detached |-> TRUE]

\* garbage collection: an inner map nothing references is gone, and of one
\* only goroutines reference nothing but its key set is kept
Collect(maps, active, tms) ==
    [m \in MapIds |->
        IF m \in {active[s] : s \in Sessions} THEN maps[m]
        ELSE IF m \in Reachable(active, tms)
        THEN [r \in Requests |-> IF maps[m][r] = NoStream THEN NoStream ELSE Detached]
        ELSE EmptyMap]

FreeMaps == MapIds \ Reachable(activeStreams, timers)

NewMap == CHOOSE m \in FreeMaps : \A n \in FreeMaps : m <= n

newMemoryStreamInfo(sessionID, requestID, query) ==
    [sessionID |-> sessionID, requestID |-> requestID, query |-> query,
     content |-> <<>>, knowledgeReferences |-> <<>>, isCompleted |-> FALSE]

\* the two map lookups of the handlers: the stream held for a key, or NoStream
MemoryLookupIn(active, maps, sessionID, requestID) ==
    IF active[sessionID] = NoMap THEN NoStream
    ELSE maps[active[sessionID]][requestID]

MemoryLookup(sessionID, requestID) ==
    MemoryLookupIn(activeStreams, sessionMaps, sessionID, requestID)

MemoryRegisterStream(sessionID, requestID, query) ==
    /\ impl = TypeMemory
    /\ LET info == newMemoryStreamInfo(sessionID, requestID, query)
           exists == activeStreams[sessionID] # NoMap
       IN  /\ LET m == IF exists THEN activeStreams[sessionID] ELSE NewMap
             IN  /\ activeStreams' = [activeStreams EXCEPT ![sessionID] = m]
                 /\ sessionMaps' = [sessionMaps EXCEPT ![m][requestID] = info]
    /\ ret' = Returned("RegisterStream", sessionID, requestID, NoStream)
    /\ UNCHANGED <<impl, redis, timers, streamFrame>>

\* a faulty update, for comparison: the references are assigned even when
\* the given list is empty
MemoryUpdatedAlwaysReplacing(stream, content, references) ==
    [stream EXCEPT
        !.content = stream.content \o content,
        !.knowledgeReferences = references]

MemoryUpdated(stream, content, references) ==
    [stream EXCEPT
        !.content = stream.content \o content,
        !.knowledgeReferences =
            IF Len(references) > 0 THEN references ELSE stream.knowledgeReferences]

MemoryUpdateStream(sessionID, requestID, content, references) ==
    /\ impl = TypeMemory
    /\ LET stream == MemoryLookup(sessionID, requestID)
       IN  IF stream # NoStream
           THEN /\ Len(stream.content) + Len(content) <= MaxContent
                /\ sessionMaps' =
                      [sessionMaps EXCEPT ![activeStreams[sessionID]][requestID] =
                          MemoryUpdated(stream, content, references)]
           ELSE UNCHANGED sessionMaps
    /\ ret' = Returned("UpdateStream", sessionID, requestID, NoStream)
    /\ UNCHANGED <<impl, activeStreams, redis, timers, streamFrame>>

MemoryCompleted(stream) == [stream EXCEPT !.isCompleted = TRUE]

MemoryCompleteStream(sessionID, requestID) ==
    /\ impl = TypeMemory
    /\ LET stream == MemoryLookup(sessionID, requestID)
       IN  IF stream # NoStream
           THEN /\ Len(timers) < MaxTimers
                /\ sessionMaps' =
                      [sessionMaps EXCEPT ![activeStreams[sessionID]][requestID] =
                          MemoryCompleted(stream)]
                \* go func() { time.Sleep(30s); ... }() closes over sessionMap
                /\ timers' = Append(timers,
                      [map |-> activeStreams[sessionID],
                       sessionID |-> sessionID, requestID |-> requestID])
           ELSE UNCHANGED <<sessionMaps, timers>>
    /\ ret' = Returned("CompleteStream", sessionID, requestID, NoStream)
    /\ UNCHANGED <<impl, activeStreams, redis, streamFrame>>

\* the body of the deletion goroutine once its sleep is over
MemoryDeleteTimer ==
    /\ impl = TypeMemory
    /\ timers # <<>>
    /\ LET t == Head(timers)
           deleted == [sessionMaps EXCEPT ![t.map][t.requestID] = NoStream]
           active == IF deleted[t.map] = EmptyMap
                     THEN [activeStreams EXCEPT ![t.sessionID] = NoMap]
                     ELSE activeStreams
       IN  /\ timers' = Tail(timers)
           /\ activeStreams' = active
           /\ sessionMaps' = Collect(deleted, active, Tail(timers))
    /\ ret' = NoCall
    /\ UNCHANGED <<impl, redis, streamFrame>>

\* a faulty conversion, for comparison: the query is left out
MemoryStreamInfoWithoutQuery(stream) ==
    [SessionID |-> stream.sessionID, RequestID |-> stream.requestID,
     Query |-> "", Content |-> stream.content,
     KnowledgeReferences |-> stream.knowledgeReferences,
     IsCompleted |-> stream.isCompleted]

MemoryStreamInfo(stream) ==
    [SessionID |-> stream.sessionID, RequestID |-> stream.requestID,
     Query |-> stream.query, Content |-> stream.content,
     KnowledgeReferences |-> stream.knowledgeReferences,
     IsCompleted |-> stream.isCompleted]

MemoryGetStream(sessionID, requestID) ==
    /\ impl = TypeMemory
    /\ LET stream == MemoryLookup(sessionID, requestID)
       IN  ret' = IF stream # NoStream
                  THEN Returned("GetStream", sessionID, requestID,
                                MemoryStreamInfo(stream))
                  ELSE Returned("GetStream", sessionID, requestID, NoStream)
    /\ UNCHANGED <<impl, activeStreams, sessionMaps, redis, timers, streamFrame>>

(***************************************************************************)
(* The Redis manager.  Redis answers every command; a handler runs to its  *)
(* return before the next call starts (the callers of one stream are       *)
(* sequential).                                                            *)
(***************************************************************************)
\* NewRedisStreamManager: the default prefix
DefaultPrefix == "stream:"

buildKey(sessionID, requestID) ==
    DefaultPrefix \o ":" \o sessionID \o ":" \o requestID

RedisKeys == {buildKey(s, r) : s \in Sessions, r \in Requests}

newRedisStreamInfo(sessionID, requestID, query) ==
    [SessionID |-> sessionID, RequestID |-> requestID, Query |-> query,
     Content |-> <<>>, KnowledgeReferences |-> <<>>, IsCompleted |-> FALSE]

\* json.Marshal of a redisStreamInfo: the fields under their json tags; a nil
\* References marshals to null
Marshal(info) ==
    [session_id |-> info.SessionID, request_id |-> info.RequestID,
     query |-> info.Query, content |-> info.Content,
     knowledge_references |->
        IF Len(info.KnowledgeReferences) = 0 THEN [null |-> TRUE]
        ELSE [array |-> info.KnowledgeReferences],
     is_completed |-> info.IsCompleted]

\* json.Unmarshal into a redisStreamInfo: null leaves the nil slice
Unmarshal(data) ==
    [SessionID |-> data.session_id, RequestID |-> data.request_id,
     Query |-> data.query, Content |-> data.content,
     KnowledgeReferences |->
        IF data.knowledge_references = [null |-> TRUE] THEN <<>>
        ELSE data.knowledge_references.array,
     IsCompleted |-> data.is_completed]

RedisRegisterStream(sessionID, requestID, query) ==
    /\ impl = TypeRedis
    /\ LET info == newRedisStreamInfo(sessionID, requestID, query)
           key == buildKey(sessionID, requestID)
       IN  redis' = [redis EXCEPT ![key] = Marshal(info)]
    /\ ret' = Returned("RegisterStream", sessionID, requestID, NoStream)
    /\ UNCHANGED <<impl, activeStreams, sessionMaps, timers, streamFrame>>

\* a faulty update, for comparison: the references are assigned even when
\* the given list is empty
RedisUpdatedAlwaysReplacing(info, content, references) ==
    [info EXCEPT
        !.Content = info.Content \o content,
        !.KnowledgeReferences = references]

RedisUpdated(info, content, references) ==
    [info EXCEPT
        !.Content = info.Content \o content,
        !.KnowledgeReferences =
            IF Len(references) > 0 THEN references ELSE info.KnowledgeReferences]

\* a faulty UpdateStream, for comparison: on redis.Nil the value is created
RedisUpdateStreamUpsert(sessionID, requestID, content, references) ==
    /\ impl = TypeRedis
    /\ LET key == buildKey(sessionID, requestID)
           data == redis[key]
           info == IF data = Nil
                   THEN newRedisStreamInfo(sessionID, requestID,
                                           CHOOSE q \in Queries : TRUE)
                   ELSE Unmarshal(data)
       IN  /\ Len(info.Content) + Len(content) <= MaxContent
           /\ redis' = [redis EXCEPT ![key] =
                 Marshal(RedisUpdated(info, content, references))]
    /\ ret' = Returned("UpdateStream", sessionID, requestID, NoStream)
    /\ UNCHANGED <<impl, activeStreams, sessionMaps, timers, streamFrame>>

RedisUpdateStream(sessionID, requestID, content, references) ==
    /\ impl = TypeRedis
    /\ LET key == buildKey(sessionID, requestID)
           data == redis[key]
       IN  IF data = Nil
           THEN UNCHANGED redis    \* key does not exist, might have expired
           ELSE LET info == Unmarshal(data)
                IN  /\ Len(info.Content) + Len(content) <= MaxContent
                    /\ redis' = [redis EXCEPT ![key] =
                          Marshal(RedisUpdated(info, content, references))]
    /\ ret' = Returned("UpdateStream", sessionID, requestID, NoStream)
    /\ UNCHANGED <<impl, activeStreams, sessionMaps, timers, streamFrame>>

RedisCompleted(info) == [info EXCEPT !.IsCompleted = TRUE]

RedisCompleteStream(sessionID, requestID) ==
    /\ impl = TypeRedis
    /\ LET key == buildKey(sessionID, requestID)
           data == redis[key]
       IN  IF data = Nil
           THEN UNCHANGED <<redis, timers>>
           ELSE /\ Len(timers) < MaxTimers
                \* go func() { time.Sleep(30s); r.client.Del(ctx, key) }()
                /\ timers' = Append(timers, [key |-> key])
                /\ redis' = [redis EXCEPT ![key] =
                      Marshal(RedisCompleted(Unmarshal(data)))]
    /\ ret' = Returned("CompleteStream", sessionID, requestID, NoStream)
    /\ UNCHANGED <<impl, activeStreams, sessionMaps, streamFrame>>

\* the deletion goroutine's DEL reaches Redis
RedisDeleteTimer ==
    /\ impl = TypeRedis
    /\ timers # <<>>
    /\ redis' = [redis EXCEPT ![Head(timers).key] = Nil]
    /\ timers' = Tail(timers)
    /\ ret' = NoCall
    /\ UNCHANGED <<impl, activeStreams, sessionMaps, streamFrame>>

\* the DEL is issued under the caller's ctx: when that ctx is cancelled by
\* then, the command fails and its error is dropped
RedisDeleteTimerCancelled ==
    /\ impl = TypeRedis
    /\ timers # <<>>
    /\ timers' = Tail(timers)
    /\ ret' = NoCall
    /\ UNCHANGED <<impl, activeStreams, sessionMaps, redis, streamFrame>>

\* Redis drops a key whose TTL ran out.  Every SET renews the TTL, and a
\* pending deletion goroutine was started at most DeleteDelay seconds ago by
\* a CompleteStream that ended in a SET, so while DeleteDelay < ttl no key
\* expires with a goroutine still asleep on it.
RedisExpire(key) ==
    /\ impl = TypeRedis
    /\ DeleteDelay < DefaultTTL
    /\ redis[key] # Nil
    /\ \A i \in 1..Len(timers) : timers[i].key # key
    /\ redis' = [redis EXCEPT ![key] = Nil]
    /\ ret' = NoCall
    /\ UNCHANGED <<impl, activeStreams, sessionMaps, timers, streamFrame>>

RedisStreamInfo(info) ==
    [SessionID |-> info.SessionID, RequestID |-> info.RequestID,
     Query |-> info.Query, Content |-> info.Content,
     KnowledgeReferences |-> info.KnowledgeReferences,
     IsCompleted |-> info.IsCompleted]

\* GET, Unmarshal and the conversion to interfaces.StreamInfo
RedisLookupIn(keyspace, sessionID, requestID) ==
    LET data == keyspace[buildKey(sessionID, requestID)]
    IN  IF data = Nil THEN NoStream ELSE RedisStreamInfo(Unmarshal(data))

RedisLookup(sessionID, requestID) == RedisLookupIn(redis, sessionID, requestID)

RedisGetStream(sessionID, requestID) ==
    /\ impl = TypeRedis
    /\ ret' = Returned("GetStream", sessionID, requestID,
                     RedisLookup(sessionID, requestID))
    /\ UNCHANGED <<impl, activeStreams, sessionMaps, redis, timers, streamFrame>>

(***************************************************************************)
(* interfaces.StreamManager, as NewStreamManager hands it out.             *)
(***************************************************************************)
RegisterStream(sessionID, requestID, query) ==
    \/ MemoryRegisterStream(sessionID, requestID, query)
    \/ RedisRegisterStream(sessionID, requestID, query)

UpdateStream(sessionID, requestID, content, references) ==
    \/ MemoryUpdateStream(sessionID, requestID, content, references)
    \/ RedisUpdateStream(sessionID, requestID, content, references)

CompleteStream(sessionID, requestID) ==
    \/ MemoryCompleteStream(sessionID, requestID)
    \/ RedisCompleteStream(sessionID, requestID)

GetStream(sessionID, requestID) ==
    \/ MemoryGetStream(sessionID, requestID)
    \/ RedisGetStream(sessionID, requestID)

\* the snapshot GetStream returns in a given state of the manager
SnapshotIn(kind, active, maps, keyspace, sessionID, requestID) ==
    IF kind = TypeMemory
    THEN LET stream == MemoryLookupIn(active, maps, sessionID, requestID)
         IN  IF stream = NoStream THEN NoStream ELSE MemoryStreamInfo(stream)
    ELSE RedisLookupIn(keyspace, sessionID, requestID)

\* the snapshot GetStream would return now, and after the step
Snapshot(sessionID, requestID) ==
    SnapshotIn(impl, activeStreams, sessionMaps, redis, sessionID, requestID)

SnapshotAfter(sessionID, requestID) ==
    SnapshotIn(impl', activeStreams', sessionMaps', redis', sessionID, requestID)

\* NewStreamManager: STREAM_MANAGER_TYPE selects the manager
StreamInit ==
    /\ impl \in {TypeMemory, TypeRedis}
    /\ activeStreams = [s \in Sessions |-> NoMap]
    /\ sessionMaps = [m \in MapIds |-> EmptyMap]
    /\ redis = [k \in RedisKeys |-> Nil]
    /\ timers = <<>>
    /\ ret = NoCall

Register ==
    \E s \in Sessions, r \in Requests, q \in Queries : RegisterStream(s, r, q)

Update ==
    \E s \in Sessions, r \in Requests, c \in Deltas, refs \in ReferenceLists :
        UpdateStream(s, r, c, refs)

Complete == \E s \in Sessions, r \in Requests : CompleteStream(s, r)

Get == \E s \in Sessions, r \in Requests : GetStream(s, r)

Expire == \E k \in RedisKeys : RedisExpire(k)

StreamNext ==
    \/ Register
    \/ Update
    \/ Complete
    \/ Get
    \/ MemoryDeleteTimer
    \/ RedisDeleteTimer
    \/ RedisDeleteTimerCancelled
    \/ Expire

(***************************************************************************)
(* The claims about the stream managers.                                   *)
(***************************************************************************)
Present(s, r) == Snapshot(s, r) # NoStream

Active(s, r) == Present(s, r) /\ ~Snapshot(s, r).IsCompleted

\* a deletion goroutine started by CompleteStream(s, r) is still asleep
PendingFor(s, r) ==
    \E i \in 1..Len(timers) :
        IF impl = TypeMemory
        THEN timers[i].sessionID = s /\ timers[i].requestID = r
        ELSE timers[i].key = buildKey(s, r)

\* C1: while a stream is registered and CompleteStream has not been called
\* for it, the content GetStream returns before any step is a prefix of the
\* content it returns after the step, whichever call the step is.
C1_PrefixMonotone ==
    [][\A s \in Sessions, r \in Requests :
          (Active(s, r) /\ (SnapshotAfter(s, r) # NoStream))
              => IsPrefix(Snapshot(s, r).Content, SnapshotAfter(s, r).Content)]_vars

\* C2: UpdateStream and CompleteStream on a key that is not in the store
\* return no error, do not create the key, start no deletion goroutine and
\* leave every stream as it was.
C2_AbsentKeyNoOp ==
    [][(/\ ret'.op \in {"UpdateStream", "CompleteStream"}
        /\ ~Present(ret'.sessionID, ret'.requestID)
        /\ \/ \E c \in Deltas, refs \in ReferenceLists :
                 UpdateStream(ret'.sessionID, ret'.requestID, c, refs)
           \/ CompleteStream(ret'.sessionID, ret'.requestID))
          => /\ ret'.err = ErrNil
             /\ timers' = timers
             /\ \A s \in Sessions, r \in Requests :
                    SnapshotAfter(s, r) = Snapshot(s, r)]_vars

\* C2's case: an UpdateStream or CompleteStream on an absent key has just
\* returned while another stream is stored.
C2_Witness ==
    /\ ret.op \in {"UpdateStream", "CompleteStream"}
    /\ ~Present(ret.sessionID, ret.requestID)
    /\ \E s \in Sessions, r \in Requests : Present(s, r) /\ Snapshot(s, r).Content # <<>>

\* C3: UpdateStream on a present key appends the delta to the content,
\* replaces the references exactly when the given list is non-empty, and
\* changes neither query nor is_completed.
C3_UpdateAppends ==
    [][\A s \in Sessions, r \in Requests :
          (/\ ret'.op = "UpdateStream"
           /\ ret'.sessionID = s /\ ret'.requestID = r
           /\ Present(s, r))
              => \A c \in Deltas, refs \in ReferenceLists :
                    UpdateStream(s, r, c, refs)
                        => LET old == Snapshot(s, r)
                               new == SnapshotAfter(s, r)
                           IN  /\ (SnapshotAfter(s, r) # NoStream)
                               /\ new.Content = old.Content \o c
                               /\ new.KnowledgeReferences =
                                     (IF refs # <<>> THEN refs
                                      ELSE old.KnowledgeReferences)
                               /\ new.Query = old.Query
                               /\ new.IsCompleted = old.IsCompleted]_vars

\* C3's case: an UpdateStream has returned on a stream that holds content
\* and references.
C3_Witness ==
    /\ ret.op = "UpdateStream"
    /\ Present(ret.sessionID, ret.requestID)
    /\ Len(Snapshot(ret.sessionID, ret.requestID).Content) = MaxContent
    /\ Snapshot(ret.sessionID, ret.requestID).KnowledgeReferences # <<>>

\* C4: from CompleteStream on a present key until the deletion goroutine it
\* started fires, GetStream returns the stream with is_completed = true.
C4_CompletedUntilTimer ==
    \A s \in Sessions, r \in Requests :
        PendingFor(s, r) => Present(s, r) /\ Snapshot(s, r).IsCompleted

\* C5: every stream in the store is TTL-bounded: its removal is scheduled,
\* by the deletion goroutine of a CompleteStream or by a TTL on its value
\* (every SET of the Redis manager carries r.ttl).
HasTTL(s, r) == impl = TypeRedis /\ redis[buildKey(s, r)] # Nil

C5_RemovalScheduled ==
    \A s \in Sessions, r \in Requests :
        Present(s, r) => PendingFor(s, r) \/ HasTTL(s, r)

\* C6: a RegisterStream on a key whose stream is registered and not
\* completed does not discard the content accumulated so far.
C6_RegisterKeepsContent ==
    [][\A s \in Sessions, r \in Requests :
          (/\ ret'.op = "RegisterStream"
           /\ ret'.sessionID = s /\ ret'.requestID = r
           /\ Active(s, r))
              => \A q \in Queries :
                    RegisterStream(s, r, q)
                        => /\ (SnapshotAfter(s, r) # NoStream)
                           /\ SnapshotAfter(s, r).Content = Snapshot(s, r).Content]_vars

(***************************************************************************)
(* ChatStream of RemoteAPIChat and OllamaChat.  streamChan is unbuffered:  *)
(* a send completes when the consumer receives.                            *)
(***************************************************************************)
DeltaTexts == {"", "a", "b"}

\* types.StreamResponse, ResponseType always ResponseTypeAnswer
StreamResponse(content, done) == [Content |-> content, Done |-> done]

\* openai stream responses: no choice, or a first choice with a delta
RemoteResponses ==
    {[Choices |-> <<>>]} \cup {[Choices |-> <<t>>] : t \in DeltaTexts}

\* ollamaapi.ChatResponse: the message content and the done flag
OllamaResponses == [Content : DeltaTexts, Done : BOOLEAN]

\* no ChatStream call is under way
ChatIdle ==
    /\ client = "none"
    /\ pc = "idle"
    /\ out = <<>>
    /\ received = <<>>
    /\ delivered = <<>>
    /\ cancelled = FALSE
    /\ consumer = "receiving"

\* a caller invokes ChatStream on one of the two clients
ChatInit ==
    /\ client \in {"remote", "ollama"}
    /\ pc = "call"
    /\ out = <<>>
    /\ received = <<>>
    /\ delivered = <<>>
    /\ cancelled = FALSE
    /\ consumer = "receiving"

\* RemoteAPIChat.ChatStream up to its return: CreateChatCompletionStream
\* fails (the channel is closed and not returned) or the goroutine starts
RemoteChatStream ==
    /\ client = "remote"
    /\ pc = "call"
    /\ pc' \in {"failed", "run"}
    /\ UNCHANGED <<client, out, received, delivered, cancelled, consumer, chatFrame>>

\* the events the loop body sends for one received response
RemoteEvents(response) ==
    IF Len(response.Choices) > 0
    THEN <<StreamResponse(response.Choices[1], FALSE)>>
    ELSE <<>>

\* stream.Recv() returns a response
RemoteRecv(response) ==
    /\ client = "remote"
    /\ pc = "run"
    /\ Len(received) < MaxResponses
    /\ received' = Append(received, response)
    /\ out' = RemoteEvents(response)
    /\ pc' = IF RemoteEvents(response) = <<>> THEN "run" ELSE "send"
    /\ UNCHANGED <<client, delivered, cancelled, consumer, chatFrame>>

\* stream.Recv() returns an error (io.EOF, a backend error, ctx cancelled):
\* the goroutine sends the terminal event and returns
RemoteRecvError ==
    /\ client = "remote"
    /\ pc = "run"
    /\ out' = <<StreamResponse("", TRUE)>>
    /\ pc' = "final"
    /\ UNCHANGED <<client, received, delivered, cancelled, consumer, chatFrame>>

\* OllamaChat.ChatStream up to its return: ensureModelAvailable fails or the
\* goroutine starts
OllamaChatStream ==
    /\ client = "ollama"
    /\ pc = "call"
    /\ pc' \in {"failed", "run"}
    /\ UNCHANGED <<client, out, received, delivered, cancelled, consumer, chatFrame>>

\* a faulty callback, for comparison: the end signal goes out before the
\* content of the same response
OllamaEventsDoneFirst(resp) ==
    (IF resp.Done THEN <<StreamResponse("", TRUE)>> ELSE <<>>)
    \o (IF resp.Content # "" THEN <<StreamResponse(resp.Content, FALSE)>> ELSE <<>>)

\* the events the callback sends for one response
OllamaEvents(resp) ==
    (IF resp.Content # "" THEN <<StreamResponse(resp.Content, FALSE)>> ELSE <<>>)
    \o (IF resp.Done THEN <<StreamResponse("", TRUE)>> ELSE <<>>)

\* the backend has sent its done response: by the Ollama protocol it is the
\* last response of a stream
DoneReceived == received # <<>> /\ received[Len(received)].Done

\* ollamaService.Chat invokes the callback with the next response
OllamaCallback(resp) ==
    /\ client = "ollama"
    /\ pc = "run"
    /\ Len(received) < MaxResponses
    /\ ~DoneReceived
    /\ received' = Append(received, resp)
    /\ out' = OllamaEvents(resp)
    /\ pc' = IF OllamaEvents(resp) = <<>> THEN "run" ELSE "send"
    /\ UNCHANGED <<client, delivered, cancelled, consumer, chatFrame>>

\* ollamaService.Chat returns nil: the goroutine ends, the deferred close runs
OllamaChatReturnsNil ==
    /\ client = "ollama"
    /\ pc = "run"
    /\ pc' = "closed"
    /\ UNCHANGED <<client, out, received, delivered, cancelled, consumer, chatFrame>>

\* ollamaService.Chat returns an error: the end signal is sent
OllamaChatReturnsError ==
    /\ client = "ollama"
    /\ pc = "run"
    /\ out' = <<StreamResponse("", TRUE)>>
    /\ pc' = "final"
    /\ UNCHANGED <<client, received, delivered, cancelled, consumer, chatFrame>>

\* where the goroutine goes once the event in hand is received
AfterSend(at, rest) ==
    IF rest # <<>> THEN at
    ELSE IF at = "final" THEN "closed" ELSE "run"

\* streamChan <- event meets the consumer's receive
Deliver ==
    /\ pc \in {"send", "final"}
    /\ consumer = "receiving"
    /\ delivered' = Append(delivered, Head(out))
    /\ out' = Tail(out)
    /\ pc' = AfterSend(pc, Tail(out))
    /\ UNCHANGED <<client, received, cancelled, consumer, chatFrame>>

\* the caller cancels ctx
Cancel ==
    /\ pc \notin {"idle", "call", "failed"}
    /\ ~cancelled
    /\ cancelled' = TRUE
    /\ UNCHANGED <<client, pc, out, received, delivered, consumer, chatFrame>>

\* having cancelled, the caller stops receiving from the channel
StopReceiving ==
    /\ cancelled
    /\ consumer = "receiving"
    /\ consumer' = "stopped"
    /\ UNCHANGED <<client, pc, out, received, delivered, cancelled, chatFrame>>

Recv == \E response \in RemoteResponses : RemoteRecv(response)

Callback == \E resp \in OllamaResponses : OllamaCallback(resp)

ChatNext ==
    \/ RemoteChatStream
    \/ Recv
    \/ RemoteRecvError
    \/ OllamaChatStream
    \/ Callback
    \/ OllamaChatReturnsNil
    \/ OllamaChatReturnsError
    \/ Deliver
    \/ Cancel
    \/ StopReceiving

(***************************************************************************)
(* enrichContentWithImageInfo.  A content is a sequence of tokens: plain   *)
(* text without an image link, markdown image links, and the pieces the    *)
(* function inserts.                                                       *)
(***************************************************************************)
Urls == {"u1", "u2"}

\* the text ![alt](url)
Link(alt, url) == [alt |-> alt, url |-> url]

PlainText == [text |-> "t"]

InputTokens == {PlainText} \cup {Link("alt", u) : u \in Urls}

\* "\n"
NL == [nl |-> 1]

\* fmt.Sprintf("Image caption: %s\n", caption) and its OCR counterpart
CaptionLine(caption) == [line |-> "Image caption: ", arg |-> caption]
OCRLine(ocr) == [line |-> "Image text: ", arg |-> ocr]

\* "Additional image information:\n"
AdditionalHeader == [header |-> "Additional image information:"]

\* fmt.Sprintf("Image %s caption: %s", url, caption) and its OCR counterpart
AdditionalCaption(url, caption) == [image |-> url, what |-> "caption", arg |-> caption]
AdditionalText(url, ocr) == [image |-> url, what |-> "text", arg |-> ocr]

\* types.ImageInfo
ImageInfos ==
    [URL : {"", "u1"}, OriginalURL : {"", "u2"}, Caption : {"", "c"}, OCRText : {"", "o"}]

SeqsUpTo(S, n) == UNION {[1..k -> S] : k \in 0..n}

NoInfo == [noinfo |-> TRUE]

\* no call is under way
EnrichIdle ==
    /\ original = <<>>
    /\ imageInfoJSON = [valid |-> FALSE, infos |-> <<>>]
    /\ enriched = <<>>
    /\ imageInfos = <<>>
    /\ imageInfoMap = [u \in Urls |-> NoInfo]
    /\ matches = <<>>
    /\ processedURLs = {}
    /\ nextMatch = 0
    /\ epc = "idle"

\* a call with a content and an imageInfoJSON that is a JSON list or not
EnrichInit ==
    /\ original \in SeqsUpTo(InputTokens, MaxTokens)
    /\ imageInfoJSON \in
          {[valid |-> FALSE, infos |-> <<>>]}
          \cup {[valid |-> TRUE, infos |-> l] : l \in SeqsUpTo(ImageInfos, MaxInfos)}
    /\ enriched = original
    /\ imageInfos = <<>>
    /\ imageInfoMap = [u \in Urls |-> NoInfo]
    /\ matches = <<>>
    /\ processedURLs = {}
    /\ nextMatch = 0
    /\ epc = "parse"

\* the map from image URL to info: later entries overwrite earlier ones, and
\* within an entry OriginalURL is written after URL
RECURSIVE BuildImageInfoMap(_, _)
BuildImageInfoMap(map, infos) ==
    IF infos = <<>> THEN map
    ELSE LET info == Head(infos)
             byURL == IF info.URL # "" /\ info.URL \in Urls
                      THEN [map EXCEPT ![info.URL] = info] ELSE map
             byOriginal == IF info.OriginalURL # "" /\ info.OriginalURL \in Urls
                           THEN [byURL EXCEPT ![info.OriginalURL] = info] ELSE byURL
         IN  BuildImageInfoMap(byOriginal, Tail(infos))

IsLink(token) == DOMAIN token = {"alt", "url"}

\* markdownImageRegex.FindAllStringSubmatch: per link the whole match, the
\* alt text and the url
RECURSIVE FindAllStringSubmatch(_)
FindAllStringSubmatch(text) ==
    IF text = <<>> THEN <<>>
    ELSE (IF IsLink(Head(text))
          THEN << <<Head(text), Head(text).alt, Head(text).url>> >>
          ELSE <<>>)
         \o FindAllStringSubmatch(Tail(text))

\* the index of the first occurrence of a token in a text, 0 when there is none
RECURSIVE Index(_, _)
Index(text, token) ==
    IF text = <<>> THEN 0
    ELSE IF Head(text) = token THEN 1
    ELSE LET rest == Index(Tail(text), token)
         IN  IF rest = 0 THEN 0 ELSE rest + 1

\* strings.Replace(text, old, new, 1): the first occurrence is replaced
ReplaceFirst(text, old, new) ==
    LET i == Index(text, old)
    IN  IF i = 0 THEN text
        ELSE SubSeq(text, 1, i - 1) \o new \o SubSeq(text, i + 1, Len(text))

\* the text that takes the place of a matched link
Replacement(link, imgInfo) ==
    <<link, NL>>
    \o (IF imgInfo.Caption # "" THEN <<CaptionLine(imgInfo.Caption)>> ELSE <<>>)
    \o (IF imgInfo.OCRText # "" THEN <<OCRLine(imgInfo.OCRText)>> ELSE <<>>)

\* json.Unmarshal and the two early returns, then the map and the matches
EnrichParse ==
    /\ epc = "parse"
    /\ IF ~imageInfoJSON.valid \/ Len(imageInfoJSON.infos) = 0
       THEN /\ epc' = "done"
            /\ UNCHANGED <<imageInfos, imageInfoMap, matches, nextMatch>>
       ELSE /\ imageInfos' = imageInfoJSON.infos
            /\ imageInfoMap' =
                  BuildImageInfoMap([u \in Urls |-> NoInfo], imageInfoJSON.infos)
            /\ matches' = FindAllStringSubmatch(enriched)
            /\ nextMatch' = 1
            /\ epc' = "loop"
    /\ UNCHANGED <<original, imageInfoJSON, enriched, processedURLs,
                   enrichFrame>>

\* one turn of the loop over the matches
EnrichMatch ==
    /\ epc = "loop"
    /\ nextMatch <= Len(matches)
    /\ LET match == matches[nextMatch]
           imgURL == match[3]
           imgInfo == imageInfoMap[imgURL]
       IN  /\ processedURLs' = processedURLs \cup {imgURL}
           /\ enriched' = IF imgInfo # NoInfo
                         THEN ReplaceFirst(enriched, match[1],
                                           Replacement(match[1], imgInfo))
                         ELSE enriched
    /\ nextMatch' = nextMatch + 1
    /\ UNCHANGED <<original, imageInfoJSON, imageInfos, imageInfoMap, matches,
                   epc, enrichFrame>>

\* a faulty list, for comparison: an entry is skipped on its URL alone
RECURSIVE AdditionalImageTextsByURLOnly(_, _)
AdditionalImageTextsByURLOnly(infos, processed) ==
    IF infos = <<>> THEN <<>>
    ELSE LET imgInfo == Head(infos)
             imgTexts ==
                (IF imgInfo.Caption # ""
                 THEN <<AdditionalCaption(imgInfo.URL, imgInfo.Caption)>> ELSE <<>>)
                \o (IF imgInfo.OCRText # ""
                    THEN <<AdditionalText(imgInfo.URL, imgInfo.OCRText)>> ELSE <<>>)
         IN  (IF imgInfo.URL \in processed THEN <<>> ELSE imgTexts)
             \o AdditionalImageTextsByURLOnly(Tail(infos), processed)

\* the lines for the images of ImageInfo whose urls no match carried
RECURSIVE AdditionalImageTexts(_, _)
AdditionalImageTexts(infos, processed) ==
    IF infos = <<>> THEN <<>>
    ELSE LET imgInfo == Head(infos)
             imgTexts ==
                (IF imgInfo.Caption # ""
                 THEN <<AdditionalCaption(imgInfo.URL, imgInfo.Caption)>> ELSE <<>>)
                \o (IF imgInfo.OCRText # ""
                    THEN <<AdditionalText(imgInfo.URL, imgInfo.OCRText)>> ELSE <<>>)
         IN  (IF imgInfo.URL \in processed \/ imgInfo.OriginalURL \in processed
              THEN <<>> ELSE imgTexts)
             \o AdditionalImageTexts(Tail(infos), processed)

\* strings.Join(lines, "\n")
RECURSIVE Join(_)
Join(lines) ==
    IF Len(lines) <= 1 THEN lines
    ELSE <<Head(lines), NL>> \o Join(Tail(lines))

\* the block appended after the loop, and the return
EnrichAdditional ==
    /\ epc = "loop"
    /\ nextMatch > Len(matches)
    /\ LET additionalImageTexts == AdditionalImageTexts(imageInfos, processedURLs)
       IN  enriched' =
              IF Len(additionalImageTexts) > 0
              THEN (IF enriched # <<>> THEN enriched \o <<NL, NL>> ELSE enriched)
                   \o <<AdditionalHeader>> \o Join(additionalImageTexts)
              ELSE enriched
    /\ epc' = "done"
    /\ UNCHANGED <<original, imageInfoJSON, imageInfos, imageInfoMap, matches,
                   processedURLs, nextMatch, enrichFrame>>

EnrichNext ==
    \/ EnrichParse
    \/ EnrichMatch
    \/ EnrichAdditional

(***************************************************************************)
(* enrichContentWithImageInfo and getEnrichedPassageForChat as functions.  *)
(***************************************************************************)
\* the loop over the matches, each turn working on the content the turns
\* before it left
RECURSIVE EnrichLoop(_, _, _)
EnrichLoop(text, ms, infoMap) ==
    IF ms = <<>> THEN text
    ELSE LET match == Head(ms)
             imgInfo == infoMap[match[3]]
         IN  EnrichLoop(IF imgInfo # NoInfo
                        THEN ReplaceFirst(text, match[1], Replacement(match[1], imgInfo))
                        ELSE text,
                        Tail(ms), infoMap)

enrichContentWithImageInfo(text, json) ==
    IF ~json.valid \/ Len(json.infos) = 0 THEN text
    ELSE LET infoMap == BuildImageInfoMap([u \in Urls |-> NoInfo], json.infos)
             ms == FindAllStringSubmatch(text)
             processed == {ms[i][3] : i \in 1..Len(ms)}
             looped == EnrichLoop(text, ms, infoMap)
             additionalImageTexts == AdditionalImageTexts(json.infos, processed)
         IN  IF Len(additionalImageTexts) > 0
             THEN (IF looped # <<>> THEN looped \o <<NL, NL>> ELSE looped)
                  \o <<AdditionalHeader>> \o Join(additionalImageTexts)
             ELSE looped

\* the empty string as a result's ImageInfo
NoImageInfo == [empty |-> TRUE]

getEnrichedPassageForChat(result) ==
    IF result.Content = <<>> /\ result.ImageInfo = NoImageInfo THEN <<>>
    ELSE IF result.ImageInfo = NoImageInfo THEN result.Content
    ELSE enrichContentWithImageInfo(result.Content, result.ImageInfo)

(***************************************************************************)
(* PluginIntoChatMessage.OnEvent.  A context template is a sequence of     *)
(* elements: text, the actions {{.Query}}, {{range .Contexts}}{{.}}{{end}}, *)
(* {{.CurrentTime}}, {{.CurrentWeek}}, an action Execute fails on, and an  *)
(* unclosed action Parse fails on.                                         *)
(***************************************************************************)
MaxResults == 2     \* most entries of chatManage.MergeResult

TemplateText == [element |-> "text"]
QueryAction == [element |-> "Query"]
ContextsAction == [element |-> "Contexts"]
CurrentTimeAction == [element |-> "CurrentTime"]
CurrentWeekAction == [element |-> "CurrentWeek"]
\* {{.Query.Missing}}: parses, and fails when executed
FailingAction == [element |-> "Query.Missing"]
\* "{{": does not parse
UnclosedAction == [element |-> "{{"]

ContextTemplates ==
    { <<>>,
      <<TemplateText, QueryAction, ContextsAction, CurrentTimeAction, CurrentWeekAction>>,
      <<ContextsAction, QueryAction>>,
      <<QueryAction, UnclosedAction>>,
      <<UnclosedAction>>,
      <<QueryAction, FailingAction, ContextsAction>>,
      <<FailingAction>> }

\* user queries, one with characters html/template escapes
UserQueries == {"q", "<q>"}

\* passage content with characters html/template escapes
MarkupText == [text |-> "<b>"]

\* the search results of a turn
SearchResults ==
    [Content : {<<>>, <<Link("alt", "u1")>>, <<MarkupText>>},
     ImageInfo : {NoImageInfo,
                  [valid |-> FALSE, infos |-> <<>>],
                  [valid |-> TRUE, infos |->
                      <<[URL |-> "u1", OriginalURL |-> "", Caption |-> "c", OCRText |-> ""]>>]}]

weekdayName ==
    <<"Sunday", "Monday", "Tuesday", "Wednesday", "Thursday", "Friday", "Saturday">>

\* what time.Now() answers: the formatted time and Weekday()
Instants ==
    {[Time |-> "2026-01-03 23:59:59", Weekday |-> 6],
     [Time |-> "2026-01-04 00:00:00", Weekday |-> 0]}

\* the PluginErrors of the plugin, each carrying the error it wraps
ErrTemplateParse == [ErrorType |-> "TEMPLATE_PARSE"]
ErrTemplateExecute == [ErrorType |-> "TEMPLATE_EXECUTE"]
WithError(e, err) == [ErrorType |-> e.ErrorType, Err |-> err]

\* a nil *PluginError, and what the rest of the chain may answer
NoPluginError == [ErrorType |-> "nil"]
NextReturns == {NoPluginError, [ErrorType |-> "CHAT_COMPLETION", Err |-> "failed"]}

\* OnEvent has not returned
NotReturned == [ErrorType |-> "pending"]

\* chatManage.UserContent before the plugin ran
PriorUserContent == <<[text |-> "prior"]>>

\* no OnEvent call is under way
PluginIdle ==
    /\ chatManage = [Query |-> "", MergeResult |-> <<>>,
                     SummaryConfig |-> [ContextTemplate |-> <<>>],
                     UserContent |-> <<>>]
    /\ passages = <<>>
    /\ ppc = "idle"
    /\ nextCalls = 0
    /\ seenByNext = <<>>
    /\ nextReturned = NotReturned
    /\ pluginReturn = NotReturned
    /\ now = [Time |-> "", Weekday |-> 0]

\* the coordinator calls OnEvent for an INTO_CHAT_MESSAGE event
PluginInit ==
    /\ chatManage \in
          [Query : UserQueries,
           MergeResult : SeqsUpTo(SearchResults, MaxResults),
           SummaryConfig : [ContextTemplate : ContextTemplates],
           UserContent : {PriorUserContent}]
    /\ passages = <<>>
    /\ ppc = "passages"
    /\ nextCalls = 0
    /\ seenByNext = <<>>
    /\ nextReturned = NotReturned
    /\ pluginReturn = NotReturned
    /\ now \in Instants

\* the loop that fills passages from chatManage.MergeResult
PluginPassages ==
    /\ ppc = "passages"
    /\ passages' = [i \in 1..Len(chatManage.MergeResult) |->
                       getEnrichedPassageForChat(chatManage.MergeResult[i])]
    /\ ppc' = "parse"
    /\ UNCHANGED <<chatManage, nextCalls, seenByNext, nextReturned, pluginReturn, now,
                   pluginFrame>>

\* template.New("searchContent").Parse: the error, or none
ParseError(text) ==
    IF \E i \in 1..Len(text) : text[i] = UnclosedAction
    THEN "unclosed action" ELSE ErrNil

\* Parse and its error return
PluginParse ==
    /\ ppc = "parse"
    /\ IF ParseError(chatManage.SummaryConfig.ContextTemplate) # ErrNil
       THEN /\ pluginReturn' = WithError(ErrTemplateParse,
                                  ParseError(chatManage.SummaryConfig.ContextTemplate))
            /\ ppc' = "returned"
       ELSE /\ ppc' = "execute"
            /\ UNCHANGED pluginReturn
    /\ UNCHANGED <<chatManage, passages, nextCalls, seenByNext, nextReturned, now,
                   pluginFrame>>

\* the escaping html/template applies to a value printed in a text context
EscapeString(str) ==
    IF str = "<q>" THEN "&lt;q&gt;"
    ELSE IF str = "<b>" THEN "&lt;b&gt;"
    ELSE str

EscapeToken(token) ==
    IF DOMAIN token = {"text"} THEN [text |-> EscapeString(token.text)] ELSE token

EscapePassage(passage) == [i \in 1..Len(passage) |-> EscapeToken(passage[i])]

\* a faulty range, for comparison: the passages come out last to first
RECURSIVE RangeContextsReversed(_)
RangeContextsReversed(contexts) ==
    IF contexts = <<>> THEN <<>>
    ELSE RangeContextsReversed(Tail(contexts)) \o EscapePassage(Head(contexts))

\* {{range .Contexts}}{{.}}{{end}}
RECURSIVE RangeContexts(_)
RangeContexts(contexts) ==
    IF contexts = <<>> THEN <<>>
    ELSE EscapePassage(Head(contexts)) \o RangeContexts(Tail(contexts))

\* tmpl.Execute: what is written to the buffer, and the error; the elements
\* before a failing action are written
RECURSIVE Execute(_, _)
Execute(text, data) ==
    IF text = <<>> THEN [out |-> <<>>, err |-> ErrNil]
    ELSE IF Head(text) = FailingAction
    THEN [out |-> <<>>, err |-> "can't evaluate field Missing"]
    ELSE LET piece ==
                 IF Head(text) = TemplateText THEN <<[text |-> "template text"]>>
                 ELSE IF Head(text) = QueryAction
                 THEN <<[text |-> EscapeString(data.Query)]>>
                 ELSE IF Head(text) = ContextsAction THEN RangeContexts(data.Contexts)
                 ELSE IF Head(text) = CurrentTimeAction
                 THEN <<[text |-> EscapeString(data.CurrentTime)]>>
                 ELSE <<[text |-> EscapeString(data.CurrentWeek)]>>
             rest == Execute(Tail(text), data)
         IN  [out |-> piece \o rest.out, err |-> rest.err]

\* the map handed to Execute
TemplateData ==
    [Query |-> chatManage.Query,
     Contexts |-> passages,
     CurrentTime |-> now.Time,
     CurrentWeek |-> weekdayName[now.Weekday + 1]]

\* a faulty step, for comparison: the template is executed straight into
\* chatManage.UserContent, which keeps what was written before the error
PluginExecuteInPlace ==
    /\ ppc = "execute"
    /\ LET userContent == Execute(chatManage.SummaryConfig.ContextTemplate, TemplateData)
       IN  /\ chatManage' = [chatManage EXCEPT !.UserContent = userContent.out]
           /\ IF userContent.err # ErrNil
              THEN /\ pluginReturn' = WithError(ErrTemplateExecute, userContent.err)
                   /\ ppc' = "returned"
              ELSE /\ ppc' = "next"
                   /\ UNCHANGED pluginReturn
    /\ UNCHANGED <<passages, nextCalls, seenByNext, nextReturned, now, pluginFrame>>

\* Execute into the local buffer, its error return, and the assignment of
\* chatManage.UserContent
PluginExecute ==
    /\ ppc = "execute"
    /\ LET userContent == Execute(chatManage.SummaryConfig.ContextTemplate, TemplateData)
       IN  IF userContent.err # ErrNil
           THEN /\ pluginReturn' = WithError(ErrTemplateExecute, userContent.err)
                /\ ppc' = "returned"
                /\ UNCHANGED chatManage
           ELSE /\ chatManage' = [chatManage EXCEPT !.UserContent = userContent.out]
                /\ ppc' = "next"
                /\ UNCHANGED pluginReturn
    /\ UNCHANGED <<passages, nextCalls, seenByNext, nextReturned, now, pluginFrame>>

\* return next(): the rest of the chain runs and its answer is returned
PluginNext ==
    /\ ppc = "next"
    /\ nextCalls' = nextCalls + 1
    /\ seenByNext' = chatManage.UserContent
    /\ nextReturned' \in NextReturns
    /\ pluginReturn' = nextReturned'
    /\ ppc' = "returned"
    /\ UNCHANGED <<chatManage, passages, now, pluginFrame>>

PluginNextStep ==
    \/ PluginPassages
    \/ PluginParse
    \/ PluginExecute
    \/ PluginNext

(***************************************************************************)
(* The Auth middleware.  A path is the sequence of its segments.           *)
(***************************************************************************)
StatusUnauthorized == 401
StatusOK == 200

\* noAuthAPI: an entry ending in '*' matches by prefix
noAuthAPI ==
    {[api |-> <<"api", "v1", "test-data">>, star |-> FALSE, methods |-> {"GET"}],
     [api |-> <<"api", "v1", "tenants">>, star |-> FALSE, methods |-> {"POST"}],
     [api |-> <<"api", "v1", "initialization">>, star |-> TRUE,
      methods |-> {"GET", "POST"}]}

\* strings.HasPrefix(path, "<api>/"): the path goes on below the entry
HasPrefix(path, api) ==
    Len(path) > Len(api) /\ SubSeq(path, 1, Len(api)) = api

\* a faulty check, for comparison: the methods of an entry are not looked at
isNoAuthAPIAnyMethod(path, method) ==
    \E e \in noAuthAPI :
        IF e.star THEN HasPrefix(path, e.api) ELSE path = e.api

isNoAuthAPI(path, method) ==
    \E e \in noAuthAPI :
        IF e.star THEN HasPrefix(path, e.api) /\ method \in e.methods
        ELSE path = e.api /\ method \in e.methods

Methods == {"GET", "POST", "OPTIONS"}

Paths ==
    {<<"health">>, <<"api", "v1", "test-data">>, <<"api", "v1", "tenants">>,
     <<"api", "v1", "initialization">>, <<"api", "v1", "initialization", "status">>,
     <<"api", "v1", "sessions">>}

\* X-API-Key header values: none, one of no known format, keys of tenant 1
\* and of tenant 2
APIKeys == {"", "garbage", "sk-1-a", "sk-1-b", "sk-2-a"}

TenantIDs == {1, 2}

\* tenantService.ExtractTenantIDFromAPIKey: the id (0 with an error)
ExtractTenantIDFromAPIKey(apiKey) ==
    IF apiKey \in {"sk-1-a", "sk-1-b"} THEN [tenantID |-> 1, err |-> ErrNil]
    ELSE IF apiKey = "sk-2-a" THEN [tenantID |-> 2, err |-> ErrNil]
    ELSE [tenantID |-> 0, err |-> "invalid API key format"]

\* what GetTenantByID may answer: an error, (nil, nil), or a tenant
NilTenant == [APIKey |-> "", nil |-> TRUE]
TenantAnswers ==
    {[t |-> NilTenant, err |-> "record not found"], [t |-> NilTenant, err |-> ErrNil]}
    \cup {[t |-> [APIKey |-> k], err |-> ErrNil] : k \in {"sk-1-a", "sk-2-a"}}

NoResponse == [status |-> 0]

\* gin.H{"error": message} written with http.StatusUnauthorized
Unauthorized(message) ==
    [status |-> StatusUnauthorized, body |-> [error |-> message]]

\* no request is being served
AuthIdle ==
    /\ request = [Method |-> "", Path |-> <<>>, APIKey |-> ""]
    /\ tenantStore = [id \in TenantIDs |-> [t |-> NilTenant, err |-> ErrNil]]
    /\ apc = "idle"
    /\ httpResponse = NoResponse
    /\ aborted = FALSE
    /\ handlerRan = FALSE
    /\ ctxTenant = 0

\* a request reaches the middleware
AuthInit ==
    /\ request \in [Method : Methods, Path : Paths, APIKey : APIKeys]
    /\ tenantStore \in [TenantIDs -> TenantAnswers]
    /\ apc = "auth"
    /\ httpResponse = NoResponse
    /\ aborted = FALSE
    /\ handlerRan = FALSE
    /\ ctxTenant = 0

\* c.Next(): the downstream handlers run and answer
AuthNext(tenantID) ==
    /\ handlerRan' = TRUE
    /\ ctxTenant' = tenantID
    /\ httpResponse' = [status |-> StatusOK, body |-> [success |-> TRUE]]
    /\ apc' = "done"
    /\ UNCHANGED <<request, tenantStore, aborted, authFrame>>

\* c.JSON(401, ...); c.Abort(); return
AuthReject(message) ==
    /\ httpResponse' = Unauthorized(message)
    /\ aborted' = TRUE
    /\ apc' = "done"
    /\ UNCHANGED <<request, tenantStore, handlerRan, ctxTenant, authFrame>>

\* OPTIONS requests pass
AuthOptions ==
    /\ apc = "auth"
    /\ request.Method = "OPTIONS"
    /\ AuthNext(0)

\* requests of the no-auth list pass
AuthNoAuthAPI ==
    /\ apc = "auth"
    /\ request.Method # "OPTIONS"
    /\ isNoAuthAPI(request.Path, request.Method)
    /\ AuthNext(0)

\* the rest of the handler: the header, the tenant id, the tenant, the key
AuthCheck ==
    /\ apc = "auth"
    /\ request.Method # "OPTIONS"
    /\ ~isNoAuthAPI(request.Path, request.Method)
    /\ LET apiKey == request.APIKey
           extracted == ExtractTenantIDFromAPIKey(apiKey)
           got == tenantStore[extracted.tenantID]
       IN  IF apiKey = "" THEN AuthReject("Unauthorized")
           ELSE IF extracted.err # ErrNil
           THEN AuthReject("Unauthorized: invalid API key format")
           ELSE IF got.err # ErrNil THEN AuthReject("Unauthorized: invalid API key")
           ELSE IF got.t = NilTenant \/ got.t.APIKey # apiKey
           THEN AuthReject("Unauthorized: invalid API key")
           ELSE AuthNext(extracted.tenantID)

AuthStep ==
    \/ AuthOptions
    \/ AuthNoAuthAPI
    \/ AuthCheck

(***************************************************************************)
(* Chat and ChatStream of RemoteAPIChat and OllamaChat: the request body   *)
(* that is sent and the usage that is returned.  Messages and the optional *)
(* parameters of ChatOptions do not bear on either and are left out; a     *)
(* model name is the sequence of the pieces it is written with.            *)
(***************************************************************************)
MaxCount == 2       \* largest token count a backend reports

ModelSourceLocal == "local"
ModelSourceRemote == "remote"

AliyunBaseURL == "https://dashscope.aliyuncs.com/compatible-mode/v1"

BaseURLs == {AliyunBaseURL, "https://api.deepseek.com/v1", ""}

ModelNames == {<<"qwen3-", "32b">>, <<"qwen3">>, <<"qwen-", "max">>, <<"deepseek-v3.1">>}

ChatConfigs ==
    [Source : {ModelSourceLocal, ModelSourceRemote}, BaseURL : BaseURLs,
     ModelName : ModelNames]

\* a faulty check, for comparison: the base URL is not looked at
isQwen3Model(c) ==
    Len(c.ModelName) >= 1 /\ c.ModelName[1] = "qwen3-"

isAliyunQwen3Model(c) ==
    /\ Len(c.ModelName) >= 1 /\ c.ModelName[1] = "qwen3-"
    /\ c.BaseURL = AliyunBaseURL

buildChatCompletionRequest(c, isStream) ==
    [Model |-> c.ModelName, Messages |-> "messages", Stream |-> isStream]

\* EnableThinking is a *bool: nil, or a pointer to false on non-stream calls
buildQwenChatCompletionRequest(c, isStream) ==
    [ChatCompletionRequest |-> buildChatCompletionRequest(c, isStream),
     EnableThinking |-> IF ~isStream THEN [pointee |-> FALSE] ELSE Nil]

\* json.Marshal of a request: the embedded request's fields, and
\* enable_thinking (omitempty) unless the pointer is nil
MarshalRequest(req) ==
    IF "EnableThinking" \in DOMAIN req
    THEN LET embedded == [model |-> req.ChatCompletionRequest.Model,
                          messages |-> req.ChatCompletionRequest.Messages,
                          stream |-> req.ChatCompletionRequest.Stream]
         IN  IF req.EnableThinking = Nil THEN embedded
             ELSE [f \in DOMAIN embedded \cup {"enable_thinking"} |->
                      IF f = "enable_thinking" THEN req.EnableThinking.pointee
                      ELSE embedded[f]]
    ELSE [model |-> req.Model, messages |-> req.Messages, stream |-> req.Stream]

\* OllamaChat.buildChatRequest, as the body the Ollama client sends
buildChatRequest(c, isStream) ==
    [model |-> c.ModelName, messages |-> "messages", stream |-> isStream,
     options |-> "options"]

\* what a remote backend answers: an error, or choices and a usage
RemoteReplies ==
    [err : BOOLEAN, choices : 0..1,
     Usage : [PromptTokens : 0..MaxCount, CompletionTokens : 0..MaxCount,
              TotalTokens : 0..(2 * MaxCount)]]

\* what Ollama answers: the model is available or not, the chat fails or
\* answers with the tokens it evaluated in the prompt and in the response
OllamaReplies ==
    [available : BOOLEAN, err : BOOLEAN,
     PromptEvalCount : 0..MaxCount, EvalCount : 0..MaxCount]

NoBody == [nobody |-> TRUE]

NoChatResponse == [noresponse |-> TRUE]

ChatError == [err |-> TRUE]

\* the *types.ChatResponse of Chat and of chatWithQwen
RemoteChatResponse(resp) ==
    IF resp.err \/ resp.choices = 0 THEN ChatError
    ELSE [Content |-> "content",
          Usage |-> [PromptTokens |-> resp.Usage.PromptTokens,
                     CompletionTokens |-> resp.Usage.CompletionTokens,
                     TotalTokens |-> resp.Usage.TotalTokens]]

\* the counts the callback of OllamaChat.Chat takes and the usage built
\* from them
OllamaUsage(resp) ==
    LET promptTokens == IF resp.EvalCount > 0 THEN resp.PromptEvalCount ELSE 0
        completionTokens ==
            IF resp.EvalCount > 0 THEN resp.EvalCount - promptTokens ELSE 0
    IN  [PromptTokens |-> promptTokens,
         CompletionTokens |-> completionTokens,
         TotalTokens |-> promptTokens + completionTokens]

\* no call is under way
CallIdle ==
    /\ chatConfig = [Source |-> ModelSourceRemote, BaseURL |-> "",
                     ModelName |-> <<"qwen3">>]
    /\ isStreamCall = FALSE
    /\ requestBody = NoBody
    /\ backendReply = NoBody
    /\ chatResponse = NoChatResponse
    /\ cpc = "idle"

\* a client built by NewChat from a config, a call of Chat or ChatStream,
\* and the answer the backend is going to give
CallInit ==
    /\ chatConfig \in ChatConfigs
    /\ isStreamCall \in BOOLEAN
    /\ requestBody = NoBody
    /\ backendReply \in
          IF chatConfig.Source = ModelSourceLocal THEN OllamaReplies
          ELSE RemoteReplies
    /\ chatResponse = NoChatResponse
    /\ cpc = "call"

\* RemoteAPIChat.Chat on the standard path
RemoteChat ==
    /\ cpc = "call"
    /\ chatConfig.Source = ModelSourceRemote
    /\ ~isStreamCall
    /\ ~isAliyunQwen3Model(chatConfig)
    /\ requestBody' = MarshalRequest(buildChatCompletionRequest(chatConfig, FALSE))
    /\ chatResponse' = RemoteChatResponse(backendReply)
    /\ cpc' = "done"
    /\ UNCHANGED <<chatConfig, isStreamCall, backendReply, callFrame>>

\* RemoteAPIChat.Chat on the path for qwen models
chatWithQwen ==
    /\ cpc = "call"
    /\ chatConfig.Source = ModelSourceRemote
    /\ ~isStreamCall
    /\ isAliyunQwen3Model(chatConfig)
    /\ requestBody' = MarshalRequest(buildQwenChatCompletionRequest(chatConfig, FALSE))
    /\ chatResponse' = RemoteChatResponse(backendReply)
    /\ cpc' = "done"
    /\ UNCHANGED <<chatConfig, isStreamCall, backendReply, callFrame>>

\* RemoteAPIChat.ChatStream, up to the request
RemoteChatStreamRequest ==
    /\ cpc = "call"
    /\ chatConfig.Source = ModelSourceRemote
    /\ isStreamCall
    /\ requestBody' = MarshalRequest(buildChatCompletionRequest(chatConfig, TRUE))
    /\ cpc' = "done"
    /\ UNCHANGED <<chatConfig, isStreamCall, backendReply, chatResponse, callFrame>>

\* OllamaChat.Chat
OllamaChatCall ==
    /\ cpc = "call"
    /\ chatConfig.Source = ModelSourceLocal
    /\ ~isStreamCall
    /\ IF ~backendReply.available
       THEN requestBody' = requestBody /\ chatResponse' = ChatError
       ELSE /\ requestBody' = buildChatRequest(chatConfig, FALSE)
            /\ chatResponse' =
                  IF backendReply.err THEN ChatError
                  ELSE [Content |-> "content", Usage |-> OllamaUsage(backendReply)]
    /\ cpc' = "done"
    /\ UNCHANGED <<chatConfig, isStreamCall, backendReply, callFrame>>

\* OllamaChat.ChatStream, up to the request
OllamaChatStreamRequest ==
    /\ cpc = "call"
    /\ chatConfig.Source = ModelSourceLocal
    /\ isStreamCall
    /\ requestBody' = IF backendReply.available
                      THEN buildChatRequest(chatConfig, TRUE) ELSE requestBody
    /\ cpc' = "done"
    /\ UNCHANGED <<chatConfig, isStreamCall, backendReply, chatResponse, callFrame>>

CallNext ==
    \/ RemoteChat
    \/ chatWithQwen
    \/ RemoteChatStreamRequest
    \/ OllamaChatCall
    \/ OllamaChatStreamRequest

(***************************************************************************)
(* InitializationHandler.Initialize: the validation of the request and the *)
(* calls on the tenant, model and knowledge-base services after it.  Of    *)
(* the request, the fields the validation reads are kept.                  *)
(***************************************************************************)
MaxModels == 2      \* most stored models of one type

MinChunkSize == 100
MaxChunkSize == 10000

\* InitializationRequest: Multimodal with its VLM pointer and the storage
\* configuration its storage type asks for, Rerank, DocumentSplitting
InitializationRequests ==
    [Multimodal : [Enabled : BOOLEAN, VLM : {"nil", "incomplete", "complete"},
                   StorageComplete : BOOLEAN],
     Rerank : {"disabled", "incomplete", "complete"},
     DocumentSplitting : [ChunkSize : {0, 99, 100, 200, 10001},
                          ChunkOverlap : {-1, 0, 100, 200},
                          Separators : {<<>>, <<"\n">>}]]

\* errors.NewBadRequestError and errors.NewInternalServerError
NewBadRequestError(message) == [code |-> "bad_request", message |-> message]
NewInternalServerError(message) == [code |-> "internal_error", message |-> message]

\* c.ShouldBindJSON with the binding tags of DocumentSplitting: required
\* rejects the zero value, min and max bound a number or a length
ShouldBindJSON(req) ==
    /\ req.DocumentSplitting.ChunkSize # 0
    /\ req.DocumentSplitting.ChunkSize >= MinChunkSize
    /\ req.DocumentSplitting.ChunkSize <= MaxChunkSize
    /\ req.DocumentSplitting.ChunkOverlap # 0
    /\ req.DocumentSplitting.ChunkOverlap >= 0
    /\ Len(req.DocumentSplitting.Separators) >= 1

\* a faulty validation, for comparison: the chunk overlap is not compared
\* with the chunk size
ValidationErrorWithoutOverlap(req) ==
    IF ~ShouldBindJSON(req) THEN "binding"
    ELSE IF req.Multimodal.Enabled /\ req.Multimodal.VLM = "nil"
    THEN "VLM configuration is required when multimodal is enabled"
    ELSE IF req.Multimodal.Enabled /\ req.Multimodal.VLM = "incomplete"
    THEN "VLM configuration is incomplete"
    ELSE IF req.Multimodal.Enabled /\ ~req.Multimodal.StorageComplete
    THEN "storage configuration is incomplete"
    ELSE IF req.Rerank = "incomplete"
    THEN "When Rerank is enabled, both model name and Base URL are required"
    ELSE IF Len(req.DocumentSplitting.Separators) = 0
    THEN "Document separators cannot be empty"
    ELSE ""

\* the message of the first check of Initialize that fails, "" when none
ValidationError(req) ==
    IF ~ShouldBindJSON(req) THEN "binding"
    ELSE IF req.Multimodal.Enabled /\ req.Multimodal.VLM = "nil"
    THEN "VLM configuration is required when multimodal is enabled"
    ELSE IF req.Multimodal.Enabled /\ req.Multimodal.VLM = "incomplete"
    THEN "VLM configuration is incomplete"
    ELSE IF req.Multimodal.Enabled /\ ~req.Multimodal.StorageComplete
    THEN "storage configuration is incomplete"
    ELSE IF req.Rerank = "incomplete"
    THEN "When Rerank is enabled, both model name and Base URL are required"
    ELSE IF req.DocumentSplitting.ChunkOverlap >= req.DocumentSplitting.ChunkSize
    THEN "Chunk overlap must be less than chunk size"
    ELSE IF Len(req.DocumentSplitting.Separators) = 0
    THEN "Document separators cannot be empty"
    ELSE ""

NoInitResponse == [none |-> TRUE]

\* types.ModelType
ModelTypes == {"KnowledgeQA", "Embedding", "Rerank", "VLLM"}

\* no request is under way
InitializeIdle ==
    /\ initRequest = [none |-> TRUE]
    /\ initStore = [tenant |-> FALSE, models |-> [t \in ModelTypes |-> 0], kb |-> FALSE]
    /\ mutations = <<>>
    /\ ctxErrors = <<>>
    /\ initResponse = NoInitResponse
    /\ ipc = "idle"

\* a POST /api/v1/initialization/initialize on a system that has or has
\* not been initialized before: at most one model of each type is stored
InitializeInit ==
    /\ initRequest \in InitializationRequests
    /\ initStore \in [tenant : BOOLEAN, models : [ModelTypes -> 0..1], kb : BOOLEAN]
    /\ mutations = <<>>
    /\ ctxErrors = <<>>
    /\ initResponse = NoInitResponse
    /\ ipc = "validate"

\* Initialize up to the end of the validation
InitializeValidate ==
    /\ ipc = "validate"
    /\ LET message == ValidationError(initRequest)
       IN  IF message # ""
           THEN /\ ctxErrors' = Append(ctxErrors, NewBadRequestError(message))
                /\ ipc' = "returned"
           ELSE /\ ctxErrors' = ctxErrors
                /\ ipc' = "tenant"
    /\ UNCHANGED <<initRequest, initStore, mutations, initResponse, initFrame>>

\* 1. the tenant: created when missing, updated when its name or its
\* description differs; either call may fail
InitializeTenant ==
    /\ ipc = "tenant"
    /\ \E updated \in BOOLEAN, failed \in BOOLEAN :
          LET called == ~initStore.tenant \/ updated
          IN  /\ mutations' =
                    IF ~initStore.tenant THEN Append(mutations, "CreateTenant")
                    ELSE IF updated THEN Append(mutations, "UpdateTenant")
                    ELSE mutations
              /\ IF called /\ failed
                 THEN /\ ctxErrors' = Append(ctxErrors,
                             NewInternalServerError("Failed to create or update tenant"))
                      /\ ipc' = "returned"
                      /\ initStore' = initStore
                 ELSE /\ ctxErrors' = ctxErrors
                      /\ ipc' = "models"
                      /\ initStore' = [initStore EXCEPT !.tenant = TRUE]
    /\ UNCHANGED <<initRequest, initResponse, initFrame>>

\* the models of modelsToProcess, in order
ModelsToProcess(req) ==
    <<"KnowledgeQA", "Embedding">>
    \o (IF req.Rerank # "disabled" THEN <<"Rerank">> ELSE <<>>)
    \o (IF req.Multimodal.Enabled /\ req.Multimodal.VLM # "nil"
        THEN <<"VLLM">> ELSE <<>>)

\* 2. the models: ListModels answers with the stored models or fails, and on
\* failure the call goes on with an empty list; each model to process is
\* updated when the list holds one of its type and created otherwise, and
\* the first call that fails ends the request; the listed VLM and rerank
\* models are deleted when they are switched off
InitializeModels ==
    /\ ipc = "models"
    /\ \E listFailed \in BOOLEAN,
          succeeded \in 0..Len(ModelsToProcess(initRequest)),
          deleteFailed \in BOOLEAN :
          LET toProcess == ModelsToProcess(initRequest)
              exists(t) == ~listFailed /\ initStore.models[t] > 0
              call(t) == IF exists(t) THEN "UpdateModel" ELSE "CreateModel"
              calls == [k \in 1..(IF succeeded < Len(toProcess)
                                  THEN succeeded + 1 ELSE succeeded) |->
                           call(toProcess[k])]
              created == {toProcess[k] : k \in 1..succeeded}
              processed == [t \in ModelTypes |->
                               IF t \in created /\ ~exists(t)
                               THEN initStore.models[t] + 1
                               ELSE initStore.models[t]]
              toDelete == {t \in {"VLLM", "Rerank"} :
                              /\ exists(t)
                              /\ IF t = "VLLM" THEN ~initRequest.Multimodal.Enabled
                                 ELSE initRequest.Rerank = "disabled"}
              deletes == (IF "VLLM" \in toDelete THEN <<"DeleteModel">> ELSE <<>>)
                         \o (IF "Rerank" \in toDelete THEN <<"DeleteModel">> ELSE <<>>)
          IN  /\ \A t \in ModelTypes : processed[t] <= MaxModels
              /\ IF succeeded < Len(toProcess)
                 THEN /\ mutations' = mutations \o calls
                      /\ ctxErrors' = Append(ctxErrors,
                             NewInternalServerError("Failed to create or update model"))
                      /\ ipc' = "returned"
                      /\ initStore' = [initStore EXCEPT !.models = processed]
                 ELSE /\ mutations' = mutations \o calls \o deletes
                      /\ ctxErrors' = ctxErrors
                      /\ ipc' = "kb"
                      /\ initStore' = [initStore EXCEPT !.models =
                            [t \in ModelTypes |->
                                IF t \in toDelete /\ ~deleteFailed
                                THEN processed[t] - 1 ELSE processed[t]]]
    /\ UNCHANGED <<initRequest, initResponse, initFrame>>

\* 3. the knowledge base: created when missing (which reads through the VLM
\* pointer and panics on nil), updated otherwise
InitializeKnowledgeBase ==
    /\ ipc = "kb"
    /\ \E failed \in BOOLEAN :
          IF ~initStore.kb /\ initRequest.Multimodal.VLM = "nil"
          THEN /\ ipc' = "panicked"
               /\ UNCHANGED <<mutations, ctxErrors, initStore, initResponse>>
          ELSE /\ mutations' =
                     Append(mutations,
                            IF initStore.kb THEN "UpdateKnowledgeBase"
                            ELSE "CreateKnowledgeBase")
               /\ IF failed
                  THEN /\ ctxErrors' = Append(ctxErrors,
                              NewInternalServerError("Failed to create or update knowledge base"))
                       /\ ipc' = "returned"
                       /\ UNCHANGED <<initStore, initResponse>>
                  ELSE /\ ctxErrors' = ctxErrors
                       /\ ipc' = "done"
                       /\ initStore' = [initStore EXCEPT !.kb = TRUE]
                       /\ initResponse' = [success |-> TRUE]
    /\ UNCHANGED <<initRequest, initFrame>>

\* the ErrorHandler middleware, after the handler has returned: the error
\* attached last is written in the unified error body
ErrorHandler ==
    /\ ipc = "returned"
    /\ initResponse' = [success |-> FALSE, error |-> ctxErrors[Len(ctxErrors)]]
    /\ ipc' = "done"
    /\ UNCHANGED <<initRequest, initStore, mutations, ctxErrors, initFrame>>

InitializeNext ==
    \/ InitializeValidate
    \/ InitializeTenant
    \/ InitializeModels
    \/ InitializeKnowledgeBase
    \/ ErrorHandler

(***************************************************************************)
(* Concurrent UpdateStream and CompleteStream calls of the Redis manager   *)
(* on one key: each call is a GET, a change of the decoded value and a SET *)
(* and the commands of different calls interleave.  The DEL that follows a *)
(* completion 30 s later is left out.                                      *)
(***************************************************************************)
MaxCalls == 2       \* most calls under way at once

CallIds == 1..MaxCalls

ConcurrentCalls ==
    {[op |-> "UpdateStream", content |-> <<c>>] : c \in {"x", "y"}}
    \cup {[op |-> "CompleteStream", content |-> <<>>]}

\* no call is under way
RaceIdle ==
    /\ stored = Nil
    /\ callers = <<>>

\* the key holds a registered stream, or nothing, and the calls start
RaceInit ==
    /\ stored \in {Nil, Marshal(newRedisStreamInfo("s1", "r1", "q1"))}
    /\ callers \in [CallIds -> [call : ConcurrentCalls, pc : {"get"}, info : {NoStream}]]

\* r.client.Get(ctx, key) and json.Unmarshal; redis.Nil ends the call
RaceGet(i) ==
    /\ callers[i].pc = "get"
    /\ callers' = [callers EXCEPT ![i] =
          IF stored = Nil THEN [@ EXCEPT !.pc = "done"]
          ELSE [@ EXCEPT !.pc = "set", !.info = Unmarshal(stored)]]
    /\ UNCHANGED <<stored, raceFrame>>

\* the change of the decoded value, json.Marshal and r.client.Set
RaceSet(i) ==
    /\ callers[i].pc = "set"
    /\ stored' = Marshal(IF callers[i].call.op = "UpdateStream"
                         THEN RedisUpdated(callers[i].info, callers[i].call.content, <<>>)
                         ELSE RedisCompleted(callers[i].info))
    /\ callers' = [callers EXCEPT ![i].pc = "done"]
    /\ UNCHANGED raceFrame

RaceGets == \E i \in CallIds : RaceGet(i)

RaceSets == \E i \in CallIds : RaceSet(i)

RaceNext ==
    \/ RaceGets
    \/ RaceSets

(***************************************************************************)
(* DownloadOllamaModel and the download tasks.  Requests are served        *)
(* concurrently; tasksMutex makes each locked section one step.  A task id *)
(* is a fresh uuid, here the first id not in the map.                      *)
(***************************************************************************)
MaxDownloads == 2   \* most download requests under way at once

DownloadIds == 1..MaxDownloads

TaskIds == 1..MaxDownloads

OllamaModels == {"m1", "m2"}

\* the progress values a pull reports, in percent
Progresses == {0, 50, 100}

NoTask == [notask |-> TRUE]

\* a faulty update, for comparison: EndTime is set on completion only
updateTaskStatusEndOnCompleted(tasks, taskID, status, progress) ==
    IF tasks[taskID] = NoTask THEN tasks
    ELSE [tasks EXCEPT ![taskID] =
            [@ EXCEPT !.Status = status, !.Progress = progress,
                      !.EndTime = IF status = "completed" THEN "now" ELSE @]]

\* updateTaskStatus, as the map it leaves
updateTaskStatus(tasks, taskID, status, progress) ==
    IF tasks[taskID] = NoTask THEN tasks
    ELSE [tasks EXCEPT ![taskID] =
            [@ EXCEPT !.Status = status, !.Progress = progress,
                      !.EndTime = IF status \in {"completed", "failed"}
                                  THEN "now" ELSE @]]

\* no request is under way
DownloadIdle ==
    /\ downloadTasks = <<>>
    /\ downloadReqs = <<>>
    /\ workers = <<>>

\* the requests arrive; no task exists yet
DownloadInit ==
    /\ downloadTasks = [t \in TaskIds |-> NoTask]
    /\ downloadReqs \in [DownloadIds -> [ModelName : OllamaModels, pc : {"check"},
                                         taskId : {0}]]
    /\ workers = [t \in TaskIds |-> "none"]

\* the request up to the end of the scan under RLock: the model is there
\* already or the check fails, a pending or downloading task of the model
\* is answered, or the request goes on to create a task
DownloadScan(i) ==
    /\ downloadReqs[i].pc = "check"
    /\ \E available \in BOOLEAN :
          LET running == {t \in TaskIds :
                             /\ downloadTasks[t] # NoTask
                             /\ downloadTasks[t].ModelName = downloadReqs[i].ModelName
                             /\ downloadTasks[t].Status \in {"pending", "downloading"}}
          IN  downloadReqs' = [downloadReqs EXCEPT ![i] =
                 IF available THEN [@ EXCEPT !.pc = "done"]
                 ELSE IF running # {}
                 THEN [@ EXCEPT !.pc = "done",
                                !.taskId = CHOOSE t \in running : TRUE]
                 ELSE [@ EXCEPT !.pc = "create"]]
    /\ UNCHANGED <<downloadTasks, workers, dlFrame>>

\* the task is created under Lock, its goroutine started, its id answered
DownloadCreate(i) ==
    /\ downloadReqs[i].pc = "create"
    /\ LET taskID == CHOOSE t \in TaskIds :
                        /\ downloadTasks[t] = NoTask
                        /\ \A u \in TaskIds : downloadTasks[u] = NoTask => t <= u
       IN  /\ downloadTasks' = [downloadTasks EXCEPT ![taskID] =
                 [ID |-> taskID, ModelName |-> downloadReqs[i].ModelName,
                  Status |-> "pending", Progress |-> 0, EndTime |-> "nil"]]
           /\ workers' = [workers EXCEPT ![taskID] = "start"]
           /\ downloadReqs' = [downloadReqs EXCEPT ![i] =
                 [@ EXCEPT !.pc = "done", !.taskId = taskID]]
    /\ UNCHANGED dlFrame

\* downloadModelAsync: the first update, to downloading
DownloadStart(t) ==
    /\ workers[t] = "start"
    /\ downloadTasks' = updateTaskStatus(downloadTasks, t, "downloading", 0)
    /\ workers' = [workers EXCEPT ![t] = "pull"]
    /\ UNCHANGED <<downloadReqs, dlFrame>>

\* the progress callback of pullModelWithProgress
DownloadProgress(t) ==
    /\ workers[t] = "pull"
    /\ \E progress \in Progresses :
          /\ progress # downloadTasks[t].Progress
          /\ downloadTasks' = updateTaskStatus(downloadTasks, t, "downloading", progress)
    /\ UNCHANGED <<downloadReqs, workers, dlFrame>>

\* pullModelWithProgress returns, with an error or without: it does at the
\* latest when the 12 h of the goroutine's context are over
DownloadEnd(t) ==
    /\ workers[t] = "pull"
    /\ \E failed \in BOOLEAN :
          downloadTasks' = IF failed
                           THEN updateTaskStatus(downloadTasks, t, "failed", 0)
                           ELSE updateTaskStatus(downloadTasks, t, "completed", 100)
    /\ workers' = [workers EXCEPT ![t] = "ended"]
    /\ UNCHANGED <<downloadReqs, dlFrame>>

DownloadScans == \E i \in DownloadIds : DownloadScan(i)

DownloadCreates == \E i \in DownloadIds : DownloadCreate(i)

DownloadStarts == \E t \in TaskIds : DownloadStart(t)

DownloadProgresses == \E t \in TaskIds : DownloadProgress(t)

DownloadEnds == \E t \in TaskIds : DownloadEnd(t)

DownloadNext ==
    \/ DownloadScans
    \/ DownloadCreates
    \/ DownloadStarts
    \/ DownloadProgresses
    \/ DownloadEnds

(***************************************************************************)
(* TestMultimodalFunction: the splitting configuration it parses from the  *)
(* form and sends to DocReader.  A form value is a string, here the        *)
(* sequence of its characters.                                             *)
(***************************************************************************)
DefaultChunkSize == 1000

DefaultChunkOverlap == 200

DigitChars == <<"0", "1", "2", "3", "4", "5", "6", "7", "8", "9">>

\* the form values sent: missing, not a number, and numbers in and out of
\* range
FormValues ==
    { <<>>, <<"a", "b">>, <<"1", "k">>, <<"-", "1">>, <<"0">>, <<"5", "0">>,
      <<"9", "9">>, <<"1", "0", "0">>, <<"1", "5", "0">>, <<"2", "0", "0">>,
      <<"+", "3", "0", "0">>, <<"9", "9", "9">>, <<"1", "0", "0", "0">>,
      <<"1", "0", "0", "0", "0">>, <<"1", "0", "0", "0", "1">> }

RECURSIVE ParseDigits(_, _)
\* the value of a sequence of digits after the value acc of those before
ParseDigits(s, acc) ==
    IF s = <<>> THEN acc
    ELSE ParseDigits(Tail(s),
                     acc * 10 + (CHOOSE d \in 0..9 : DigitChars[d + 1] = Head(s)))

\* strconv.Atoi: an optional sign and at least one digit, or an error
Atoi(s) ==
    LET signed == s # <<>> /\ Head(s) \in {"+", "-"}
        digits == IF signed THEN Tail(s) ELSE s
    IN  IF digits = <<>> \/ \E k \in 1..Len(digits) :
                                \A d \in 1..10 : DigitChars[d] # digits[k]
        THEN [err |-> TRUE, n |-> 0]
        ELSE [err |-> FALSE,
              n |-> IF signed /\ Head(s) = "-" THEN 0 - ParseDigits(digits, 0)
                    ELSE ParseDigits(digits, 0)]

\* the chunk size used for the form value
ParseChunkSize(value) ==
    LET parsed == Atoi(value)
    IN  IF parsed.err \/ parsed.n < MinChunkSize \/ parsed.n > MaxChunkSize
        THEN DefaultChunkSize ELSE parsed.n

\* the chunk overlap used for the form value, given the chunk size used
ParseChunkOverlap(value, chunkSize) ==
    LET parsed == Atoi(value)
    IN  IF parsed.err \/ parsed.n < 0 \/ parsed.n >= chunkSize
        THEN DefaultChunkOverlap ELSE parsed.n

NoReadConfig == [sent |-> FALSE]

\* no test request is under way
MultimodalIdle ==
    /\ testRequest = <<>>
    /\ readConfig = NoReadConfig
    /\ mmResponse = "none"

\* a test request arrives
MultimodalInit ==
    /\ testRequest \in [ChunkSize : FormValues, ChunkOverlap : FormValues]
    /\ readConfig = NoReadConfig
    /\ mmResponse = "none"

\* the handler is left before the configuration is parsed: the form does
\* not bind, the image is missing, not an image or too large
TestMultimodalRejected ==
    /\ mmResponse = "none"
    /\ mmResponse' = "bad request"
    /\ UNCHANGED <<testRequest, readConfig, mmFrame>>

\* the handler parses the configuration and testMultimodalWithDocReader
\* sends it; DocReader answers or fails
TestMultimodalFunction ==
    /\ mmResponse = "none"
    /\ LET chunkSize == ParseChunkSize(testRequest.ChunkSize)
           chunkOverlap == ParseChunkOverlap(testRequest.ChunkOverlap, chunkSize)
       IN  readConfig' = [sent |-> TRUE, ChunkSize |-> chunkSize,
                          ChunkOverlap |-> chunkOverlap]
    /\ mmResponse' \in {"success", "failure"}
    /\ UNCHANGED <<testRequest, mmFrame>>

MultimodalNext ==
    \/ TestMultimodalRejected
    \/ TestMultimodalFunction

(***************************************************************************)
(* The recall metric.  A Go map used as a set is a set; a float64 result   *)
(* is the exact fraction num / den, so rounding is left out.               *)
(***************************************************************************)
MaxId == 3   \* chunk ids are 1..MaxId

MaxGT == 2   \* most ground-truth sets of one input

ChunkIds == 1..MaxId

\* the lists of distinct ids
DistinctLists == {li \in SeqsUpTo(ChunkIds, MaxId) :
                     \A i, j \in DOMAIN li : li[i] = li[j] => i = j}

\* the ground-truth lists: not empty, distinct ids in ascending order
GroundTruths == {li \in DistinctLists :
                    /\ li # <<>>
                    /\ \A i, j \in DOMAIN li : i < j => li[i] < li[j]}

MetricInputs ==
    [RetrievalGT : UNION {[1..k -> GroundTruths] : k \in 1..MaxGT},
     RetrievalIDs : DistinctLists]

\* a common multiple of the sizes a ground-truth set can have
Scale == LET fact[k \in 0..MaxId] == IF k = 0 THEN 1 ELSE k * fact[k - 1]
         IN  fact[MaxId]

ToSet(li) == {li[i] : i \in DOMAIN li}

\* SliceMap, fn being a function
SliceMap(li, fn) == [i \in DOMAIN li |-> fn[li[i]]]

\* a faulty count, for comparison: a set is hit once or not at all
HitAtMostOnce(li, set) ==
    IF \E i \in DOMAIN li : li[i] \in set THEN 1 ELSE 0

\* Hit: how many entries of li are in set
Hit(li, set) ==
    LET count[k \in 0..Len(li)] ==
            IF k = 0 THEN 0
            ELSE IF li[k] \in set THEN count[k - 1] + 1 ELSE count[k - 1]
    IN  count[Len(li)]

\* Fold, f being a function of the accumulator and the item
Fold(slice, initial, f) ==
    LET accumulator[k \in 0..Len(slice)] ==
            IF k = 0 THEN initial ELSE f[accumulator[k - 1], slice[k]]
    IN  accumulator[Len(slice)]

\* RecallMetric.Compute: the mean over the ground-truth sets of the part of
\* the set that is retrieved
Compute(input) ==
    LET gtSets == SliceMap(input.RetrievalGT, [li \in GroundTruths |-> ToSet(li)])
        add == [a \in Nat, b \in SUBSET ChunkIds |->
                   a + Hit(input.RetrievalIDs, b) * (Scale \div Cardinality(b))]
    IN  [num |-> Fold(gtSets, 0, add), den |-> Scale * Len(gtSets)]

NoRecall == [norecall |-> TRUE]

\* nothing is being measured
RecallIdle ==
    /\ metricInput = <<>>
    /\ recallValue = NoRecall

\* an input is to be measured
RecallInit ==
    /\ metricInput \in MetricInputs
    /\ recallValue = NoRecall

RecallCompute ==
    /\ recallValue = NoRecall
    /\ recallValue' = Compute(metricInput)
    /\ UNCHANGED <<metricInput, recallFrame>>

RecallNext ==
    \/ RecallCompute

(***************************************************************************)
(* splitSentences.  A string is the sequence of its characters; the        *)
(* ideographic full stop is the character "fullstop".                      *)
(***************************************************************************)
MaxText == 4   \* longest text split

\* the characters the regexp matches
Periods == {".", "fullstop"}

TextChars == {"a", "b", " "} \cup Periods

RECURSIVE Split(_)
\* regexp.Split(s, -1) for a regexp matching one period: the pieces between
\* the periods, empty ones too, without the periods
Split(s) ==
    IF \A k \in DOMAIN s : s[k] \notin Periods THEN <<s>>
    ELSE LET first == CHOOSE k \in DOMAIN s :
                          /\ s[k] \in Periods
                          /\ \A j \in 1..(k - 1) : s[j] \notin Periods
         IN  <<SubSeq(s, 1, first - 1)>> \o Split(SubSeq(s, first + 1, Len(s)))

RECURSIVE TrimSpace(_)
\* strings.TrimSpace
TrimSpace(s) ==
    IF s = <<>> THEN s
    ELSE IF Head(s) = " " THEN TrimSpace(Tail(s))
    ELSE IF s[Len(s)] = " " THEN TrimSpace(SubSeq(s, 1, Len(s) - 1))
    ELSE s

\* splitSentences: the loop over the pieces, then the remaining text
splitSentences(s) ==
    LET split == Split(s)
        \* the sentences and the builder after the first k pieces; the
        \* piece at Go index i is split[i + 1]
        loop[k \in 0..Len(split)] ==
            IF k = 0 THEN [sentences |-> <<>>, current |-> <<>>]
            ELSE LET before == loop[k - 1]
                 IN  IF (k - 1) % 2 = 0
                     THEN [before EXCEPT !.current = @ \o split[k]]
                     ELSE IF Len(before.current) > 0
                     THEN [sentences |->
                              IF TrimSpace(before.current) # <<>>
                              THEN Append(before.sentences, TrimSpace(before.current))
                              ELSE before.sentences,
                           current |-> <<>>]
                     ELSE before
        after == loop[Len(split)]
    IN  IF TrimSpace(after.current) # <<>>
        THEN Append(after.sentences, TrimSpace(after.current))
        ELSE after.sentences

NoSentences == [nosentences |-> TRUE]

\* nothing is being split
SentencesIdle ==
    /\ sentenceText = <<>>
    /\ sentences = NoSentences

\* a text is to be split
SentencesInit ==
    /\ sentenceText \in SeqsUpTo(TextChars, MaxText)
    /\ sentences = NoSentences

SplitSentences ==
    /\ sentences = NoSentences
    /\ sentences' = [list |-> splitSentences(sentenceText)]
    /\ UNCHANGED <<sentenceText, sentenceFrame>>

SentencesNext ==
    \/ SplitSentences

(***************************************************************************)
(* The specifications.                                                     *)
(***************************************************************************)
StreamIdle == StreamInit /\ impl = TypeMemory

Init == StreamInit /\ ChatIdle /\ EnrichIdle /\ PluginIdle /\ AuthIdle /\ CallIdle /\ InitializeIdle /\ RaceIdle /\ DownloadIdle /\ MultimodalIdle /\ RecallIdle /\ SentencesIdle

Next == StreamNext

\* the stream managers under any sequence of handler calls
Spec == Init /\ [][Next]_vars

ChatSpecInit == StreamIdle /\ ChatInit /\ EnrichIdle /\ PluginIdle /\ AuthIdle /\ CallIdle /\ InitializeIdle /\ RaceIdle /\ DownloadIdle /\ MultimodalIdle /\ RecallIdle /\ SentencesIdle

\* one ChatStream call, its goroutine and its consumer
ChatSpec == ChatSpecInit /\ [][ChatNext]_vars

EnrichSpecInit == StreamIdle /\ ChatIdle /\ EnrichInit /\ PluginIdle /\ AuthIdle /\ CallIdle /\ InitializeIdle /\ RaceIdle /\ DownloadIdle /\ MultimodalIdle /\ RecallIdle /\ SentencesIdle

\* one call of enrichContentWithImageInfo
EnrichSpec == EnrichSpecInit /\ [][EnrichNext]_vars

PluginSpecInit == StreamIdle /\ ChatIdle /\ EnrichIdle /\ PluginInit /\ AuthIdle /\ CallIdle /\ InitializeIdle /\ RaceIdle /\ DownloadIdle /\ MultimodalIdle /\ RecallIdle /\ SentencesIdle

\* one call of PluginIntoChatMessage.OnEvent
PluginSpec == PluginSpecInit /\ [][PluginNextStep]_vars

AuthSpecInit == StreamIdle /\ ChatIdle /\ EnrichIdle /\ PluginIdle /\ AuthInit /\ CallIdle /\ InitializeIdle /\ RaceIdle /\ DownloadIdle /\ MultimodalIdle /\ RecallIdle /\ SentencesIdle

\* one request through the Auth middleware
AuthSpec == AuthSpecInit /\ [][AuthStep]_vars

\* one call of Chat or ChatStream on a client NewChat built
CallSpecInit == StreamIdle /\ ChatIdle /\ EnrichIdle /\ PluginIdle /\ AuthIdle /\ CallInit /\ InitializeIdle /\ RaceIdle /\ DownloadIdle /\ MultimodalIdle /\ RecallIdle /\ SentencesIdle

CallSpec == CallSpecInit /\ [][CallNext]_vars

\* one Initialize request
InitializeSpecInit == StreamIdle /\ ChatIdle /\ EnrichIdle /\ PluginIdle /\ AuthIdle /\ CallIdle /\ InitializeInit /\ RaceIdle /\ DownloadIdle /\ MultimodalIdle /\ RecallIdle /\ SentencesIdle

InitializeSpec == InitializeSpecInit /\ [][InitializeNext]_vars

\* concurrent calls on one key of the Redis manager
RaceSpecInit == StreamIdle /\ ChatIdle /\ EnrichIdle /\ PluginIdle /\ AuthIdle /\ CallIdle /\ InitializeIdle /\ RaceInit /\ DownloadIdle /\ MultimodalIdle /\ RecallIdle /\ SentencesIdle

RaceSpec == RaceSpecInit /\ [][RaceNext]_vars

\* concurrent download requests and the goroutines of their tasks
DownloadSpecInit == StreamIdle /\ ChatIdle /\ EnrichIdle /\ PluginIdle /\ AuthIdle /\ CallIdle /\ InitializeIdle /\ RaceIdle /\ DownloadInit /\ MultimodalIdle /\ RecallIdle /\ SentencesIdle

DownloadSpec == DownloadSpecInit /\ [][DownloadNext]_vars

\* the goroutines are scheduled, and a pull ends
DownloadFairSpec ==
    /\ DownloadSpec
    /\ \A t \in TaskIds : WF_vars(DownloadStart(t)) /\ WF_vars(DownloadEnd(t))

\* one multimodal test request
MultimodalSpecInit == StreamIdle /\ ChatIdle /\ EnrichIdle /\ PluginIdle /\ AuthIdle /\ CallIdle /\ InitializeIdle /\ RaceIdle /\ DownloadIdle /\ MultimodalInit /\ RecallIdle /\ SentencesIdle

MultimodalSpec == MultimodalSpecInit /\ [][MultimodalNext]_vars

\* one input measured by the recall metric
RecallSpecInit == StreamIdle /\ ChatIdle /\ EnrichIdle /\ PluginIdle /\ AuthIdle /\ CallIdle /\ InitializeIdle /\ RaceIdle /\ DownloadIdle /\ MultimodalIdle /\ RecallInit /\ SentencesIdle

RecallSpec == RecallSpecInit /\ [][RecallNext]_vars

\* one text split into sentences
SentencesSpecInit == StreamIdle /\ ChatIdle /\ EnrichIdle /\ PluginIdle /\ AuthIdle /\ CallIdle /\ InitializeIdle /\ RaceIdle /\ DownloadIdle /\ MultimodalIdle /\ RecallIdle /\ SentencesInit

SentencesSpec == SentencesSpecInit /\ [][SentencesNext]_vars

C14_RegisterThenGet ==
    [][\A s \in Sessions, r \in Requests :
          (/\ ret'.op \in {"RegisterStream", "GetStream"}
           /\ ret'.sessionID = s /\ ret'.requestID = r)
              => /\ ret'.op = "RegisterStream" =>
                       \A q \in Queries :
                          RegisterStream(s, r, q) =>
                             /\ ret'.err = ErrNil
                             /\ SnapshotAfter(s, r) # NoStream
                             /\ SnapshotAfter(s, r).Query = q
                             /\ SnapshotAfter(s, r).Content = <<>>
                             /\ SnapshotAfter(s, r).KnowledgeReferences = <<>>
                             /\ ~SnapshotAfter(s, r).IsCompleted
                 /\ (ret'.op = "GetStream" /\ ret.op = "RegisterStream"
                     /\ ret.sessionID = s /\ ret.requestID = r) =>
                       /\ ret'.err = ErrNil
                       /\ ret'.info # NoStream
                       /\ ret'.info.Query \in Queries
                       /\ ret'.info.Content = <<>>
                       /\ ret'.info.KnowledgeReferences = <<>>
                       /\ ~ret'.info.IsCompleted
                 /\ (/\ ret'.op = "GetStream"
                     /\ IF impl = TypeMemory
                        THEN \/ activeStreams[s] = NoMap
                             \/ sessionMaps[activeStreams[s]][r] = NoStream
                        ELSE redis[buildKey(s, r)] = Nil) =>
                       ret'.info = NoStream /\ ret'.err = ErrNil]_vars

\* C14's case: GetStream has returned a stream as RegisterStream left it,
\* while the other key of the session is not stored.
C14_Witness ==
    /\ ret.op = "GetStream"
    /\ ret.info # NoStream
    /\ ret.info.Query = "q1" /\ ret.info.Content = <<>> /\ ~ret.info.IsCompleted
    /\ \E r \in Requests : r # ret.requestID /\ ~Present(ret.sessionID, r)

\* C22: in the memory manager no step removes a stream that is registered
\* and not completed: a stream GetStream returns with is_completed = false
\* before a step is still returned after it.
C22_LiveStreamKept ==
    [][impl = TypeMemory
        => \A s \in Sessions, r \in Requests :
              Active(s, r) => SnapshotAfter(s, r) # NoStream]_vars

\* C24: completion is final: when GetStream returns a key with
\* is_completed = true before a step and the key is still stored after the
\* step, GetStream returns it with is_completed = true and the same content
\* after the step, whichever call the step is.
C24_CompletionFinal ==
    [][\A s \in Sessions, r \in Requests :
          (/\ Present(s, r)
           /\ Snapshot(s, r).IsCompleted
           /\ SnapshotAfter(s, r) # NoStream)
              => /\ SnapshotAfter(s, r).IsCompleted
                 /\ SnapshotAfter(s, r).Content = Snapshot(s, r).Content]_vars

(***************************************************************************)
(* The claims about ChatStream.                                            *)
(***************************************************************************)
RECURSIVE CountDone(_)
CountDone(events) ==
    IF events = <<>> THEN 0
    ELSE (IF Head(events).Done THEN 1 ELSE 0) + CountDone(Tail(events))

IsDelta(e) == ~e.Done

RECURSIVE Contents(_)
Contents(events) ==
    IF events = <<>> THEN <<>>
    ELSE <<Head(events).Content>> \o Contents(Tail(events))

\* the deltas the goroutine is to forward for the responses it received
RECURSIVE Forwarded(_)
Forwarded(responses) ==
    IF responses = <<>> THEN <<>>
    ELSE LET first == Head(responses)
             delta == IF client = "remote"
                      THEN (IF Len(first.Choices) > 0 THEN <<first.Choices[1]>> ELSE <<>>)
                      ELSE (IF first.Content # "" THEN <<first.Content>> ELSE <<>>)
         IN  delta \o Forwarded(Tail(responses))

\* C7: when the channel of a ChatStream call is closed, exactly one event
\* with Done = true was delivered on it.
C7_ExactlyOneDone == pc = "closed" => CountDone(delivered) = 1

\* C8: the Done = false events read from the channel carry, in order, the
\* deltas of the responses received from the backend, all of them once the
\* goroutine has nothing in hand, and no Done = false event follows a
\* Done = true event.
C8_ArrivalOrder ==
    /\ IsPrefix(Contents(SelectSeq(delivered, IsDelta)), Forwarded(received))
    /\ out = <<>> => Contents(SelectSeq(delivered, IsDelta)) = Forwarded(received)
    /\ \A i, j \in 1..Len(delivered) :
          (i < j /\ delivered[i].Done) => delivered[j].Done

\* C8's case: the channel is closed after two deltas and the terminal event
\* were read from it.
C8_Witness ==
    /\ pc = "closed"
    /\ Len(SelectSeq(delivered, IsDelta)) = MaxResponses
    /\ delivered[1].Content # delivered[2].Content
    /\ delivered[Len(delivered)].Done

\* C9: once ctx is cancelled and the consumer has stopped receiving, the
\* goroutine is not left in a send on streamChan: it ends and the channel
\* is closed.
C9_CancelTerminates ==
    (cancelled /\ consumer = "stopped") => pc \notin {"send", "final"}

(***************************************************************************)
(* The claims about enrichContentWithImageInfo.                            *)
(***************************************************************************)
\* the image-info entries a link's url matches
Matching(url) ==
    {i \in 1..Len(imageInfoJSON.infos) :
        imageInfoJSON.infos[i].URL = url \/ imageInfoJSON.infos[i].OriginalURL = url}

\* the annotation lines of an entry
Lines(imgInfo) ==
    (IF imgInfo.Caption # "" THEN <<CaptionLine(imgInfo.Caption)>> ELSE <<>>)
    \o (IF imgInfo.OCRText # "" THEN <<OCRLine(imgInfo.OCRText)>> ELSE <<>>)

\* the positions of a token in a text, in order
Positions(text, token) == {i \in 1..Len(text) : text[i] = token}

\* the position in the enriched text of the occurrence that stands at
\* position j of the original content: the occurrence with as many equal
\* links before it (0 when the enriched text has no such occurrence)
EnrichedPosition(j) ==
    LET before == Cardinality({i \in Positions(original, original[j]) : i < j})
        found == {p \in Positions(enriched, original[j]) :
                    Cardinality({i \in Positions(enriched, original[j]) : i < p}) = before}
    IN  IF found = {} THEN 0 ELSE CHOOSE p \in found : TRUE

\* C10: in the enriched passage every occurrence of an image link whose url
\* matches an image-info entry is directly followed by the caption line and
\* the OCR line of a matching entry, each when it is non-empty.
C10_EveryOccurrenceAnnotated ==
    epc = "done" =>
        \A j \in 1..Len(original) :
            (IsLink(original[j]) /\ Matching(original[j].url) # {})
                => \E i \in Matching(original[j].url) :
                      LET lines == Lines(imageInfoJSON.infos[i])
                          p == EnrichedPosition(j)
                      IN  /\ p # 0
                          /\ lines # <<>> =>
                                /\ p + 1 + Len(lines) <= Len(enriched)
                                /\ SubSeq(enriched, p + 1, p + 1 + Len(lines))
                                      = <<NL>> \o lines

\* the urls of the markdown image links of the passage content
LinkURLs == {original[j].url : j \in {k \in 1..Len(original) : IsLink(original[k])}}

\* the image-info entries with a caption or an OCR text none of whose urls
\* is the url of a link
Unlinked ==
    {i \in 1..Len(imageInfoJSON.infos) :
        LET imgInfo == imageInfoJSON.infos[i]
        IN  /\ imgInfo.Caption # "" \/ imgInfo.OCRText # ""
            /\ imgInfo.URL \notin LinkURLs
            /\ imgInfo.OriginalURL \notin LinkURLs}

\* the lines that list an entry in the additional block
Listing(imgInfo) ==
    (IF imgInfo.Caption # ""
     THEN {AdditionalCaption(imgInfo.URL, imgInfo.Caption)} ELSE {})
    \cup (IF imgInfo.OCRText # ""
          THEN {AdditionalText(imgInfo.URL, imgInfo.OCRText)} ELSE {})

\* C16: the enriched passage has no 'Additional image information:' block
\* when no image-info entry with a caption or an OCR text is without a link;
\* otherwise it ends with exactly one block, in which every such entry is
\* listed and which holds as many lines as these entries have, so that no
\* entry with a link is listed.
C16_AdditionalBlock ==
    epc = "done" =>
        LET headers == Positions(enriched, AdditionalHeader)
        IN  IF Unlinked = {} THEN headers = {}
            ELSE /\ Cardinality(headers) = 1
                 /\ LET p == CHOOSE h \in headers : TRUE
                        block == {k \in p + 1..Len(enriched) : enriched[k] # NL}
                    IN  /\ \A i \in Unlinked :
                              \A line \in Listing(imageInfoJSON.infos[i]) :
                                 \E k \in block : enriched[k] = line
                        /\ \A k \in block :
                              \E i \in Unlinked :
                                 enriched[k] \in Listing(imageInfoJSON.infos[i])
                        /\ Cardinality(block)
                              = Cardinality({<<i, line>> \in
                                    Unlinked \X UNION {Listing(imageInfoJSON.infos[i]) :
                                                          i \in Unlinked} :
                                    line \in Listing(imageInfoJSON.infos[i])})

\* C16's case: a passage with a link and with an entry that has no link,
\* enriched with a block.
C16_Witness ==
    /\ epc = "done"
    /\ Unlinked # {}
    /\ Positions(enriched, AdditionalHeader) # {}
    /\ LinkURLs # {}

(***************************************************************************)
(* The claims about PluginIntoChatMessage.OnEvent.                         *)
(***************************************************************************)
\* the template does not parse / parses and fails when executed
Unparsable ==
    \E i \in 1..Len(chatManage.SummaryConfig.ContextTemplate) :
        chatManage.SummaryConfig.ContextTemplate[i] = UnclosedAction

FailsToExecute ==
    /\ ~Unparsable
    /\ \E i \in 1..Len(chatManage.SummaryConfig.ContextTemplate) :
          chatManage.SummaryConfig.ContextTemplate[i] = FailingAction

\* C11: when the context template fails to parse or to execute, OnEvent
\* returns the TEMPLATE_PARSE respectively TEMPLATE_EXECUTE PluginError,
\* never calls next() and leaves chatManage.UserContent as it was.
C11_TemplateErrors ==
    (ppc # "idle" /\ (Unparsable \/ FailsToExecute))
        => /\ nextCalls = 0
           /\ chatManage.UserContent = PriorUserContent
           /\ ppc \in {"passages", "parse", "execute", "returned"}
           /\ ppc = "returned" =>
                 pluginReturn.ErrorType =
                    (IF Unparsable THEN "TEMPLATE_PARSE" ELSE "TEMPLATE_EXECUTE")

\* C11's case: OnEvent has returned the execute error of a template whose
\* first action had already been written to the buffer.
C11_Witness ==
    /\ ppc = "returned"
    /\ pluginReturn.ErrorType = "TEMPLATE_EXECUTE"
    /\ chatManage.SummaryConfig.ContextTemplate[1] = QueryAction
    /\ chatManage.MergeResult # <<>>

RECURSIVE Concat(_)
Concat(seqs) == IF seqs = <<>> THEN <<>> ELSE Head(seqs) \o Concat(Tail(seqs))

\* the text the template's element i stands for, given the call's inputs
ExpectedPiece(i) ==
    LET e == chatManage.SummaryConfig.ContextTemplate[i].element
    IN  CASE e = "text" -> <<[text |-> "template text"]>>
          [] e = "Query" -> <<[text |-> EscapeString(chatManage.Query)]>>
          [] e = "Contexts" ->
                Concat([k \in 1..Len(chatManage.MergeResult) |->
                           EscapePassage(getEnrichedPassageForChat(chatManage.MergeResult[k]))])
          [] e = "CurrentTime" -> <<[text |-> now.Time]>>
          [] e = "CurrentWeek" ->
                <<[text |-> IF now.Weekday = 0 THEN "Sunday" ELSE "Saturday"]>>

ExpectedUserContent ==
    Concat([i \in 1..Len(chatManage.SummaryConfig.ContextTemplate) |-> ExpectedPiece(i)])

\* C17: when the template parses and executes, OnEvent sets
\* chatManage.UserContent to the template output (the query, the enriched
\* passages in MergeResult order, the time and the weekday), then calls
\* next() once, and returns what next() returned.
C17_SuccessCallsNext ==
    (ppc # "idle" /\ ~Unparsable /\ ~FailsToExecute)
        => /\ nextCalls = (IF ppc = "returned" THEN 1 ELSE 0)
           /\ ppc \in {"next", "returned"} =>
                 chatManage.UserContent = ExpectedUserContent
           /\ ppc = "returned" =>
                 /\ seenByNext = ExpectedUserContent
                 /\ nextReturned \in NextReturns
                 /\ pluginReturn = nextReturned

\* C17's case: OnEvent has returned the error of next() after setting a
\* content built from two different passages.
C17_Witness ==
    /\ ppc = "returned"
    /\ nextCalls = 1
    /\ pluginReturn.ErrorType = "CHAT_COMPLETION"
    /\ Len(passages) = 2
    /\ passages[1] # passages[2] /\ passages[1] # <<>> /\ passages[2] # <<>>
    /\ \E i \in 1..Len(chatManage.SummaryConfig.ContextTemplate) :
          chatManage.SummaryConfig.ContextTemplate[i] = ContextsAction
    /\ chatManage.Query = "<q>"

(***************************************************************************)
(* The claims about the Auth middleware.                                   *)
(***************************************************************************)
\* C12: for a request that is neither OPTIONS nor on the no-auth list, the
\* downstream handler runs only if the X-API-Key header is non-empty, a
\* tenant id is extracted from it, the tenant exists and its stored key
\* equals the header; otherwise the response is 401 and the chain aborted.
C12_AuthGuardsHandler ==
    (/\ apc = "done"
     /\ request.Method # "OPTIONS"
     /\ ~\E e \in noAuthAPI :
           /\ request.Method \in e.methods
           /\ IF e.star
              THEN /\ Len(request.Path) > Len(e.api)
                   /\ \A i \in 1..Len(e.api) : request.Path[i] = e.api[i]
              ELSE request.Path = e.api)
        => LET authentic ==
                 /\ request.APIKey # ""
                 /\ \E id \in TenantIDs :
                       /\ ExtractTenantIDFromAPIKey(request.APIKey).err = ErrNil
                       /\ ExtractTenantIDFromAPIKey(request.APIKey).tenantID = id
                       /\ tenantStore[id].err = ErrNil
                       /\ tenantStore[id].t # NilTenant
                       /\ tenantStore[id].t.APIKey = request.APIKey
           IN  IF authentic
               THEN handlerRan /\ ~aborted
               ELSE /\ ~handlerRan
                    /\ aborted
                    /\ httpResponse.status = StatusUnauthorized

\* C12's case: a request with a well-formed key of an existing tenant whose
\* stored key is another one was rejected.
C12_Witness ==
    /\ apc = "done"
    /\ request.APIKey = "sk-1-b"
    /\ tenantStore[1].t # NilTenant
    /\ request.Path = <<"health">>
    /\ aborted /\ ~handlerRan

\* C19: every error response, the 401s of the Auth middleware included, has
\* the body {success: false, error: {code, message, details?}}.
C19_UnifiedErrorBody ==
    (apc = "done" /\ httpResponse.status >= 400)
        => /\ DOMAIN httpResponse.body = {"success", "error"}
           /\ httpResponse.body.success = FALSE
           /\ {"code", "message"} \subseteq DOMAIN httpResponse.body.error

(***************************************************************************)
(* The claims about the non-stream Chat calls.                             *)
(***************************************************************************)
\* C15: a request body carries enable_thinking exactly when it is the body
\* of a non-stream Chat of a remote client whose model name starts with
\* qwen3- and whose base URL is the Aliyun compatible endpoint, and then
\* with the value false; every other body of a remote client has the
\* standard shape.
C15_EnableThinking ==
    requestBody # NoBody =>
        LET qwen3OnAliyun ==
               /\ chatConfig.Source = ModelSourceRemote
               /\ Head(chatConfig.ModelName) = "qwen3-"
               /\ chatConfig.BaseURL = "https://dashscope.aliyuncs.com/compatible-mode/v1"
        IN  IF qwen3OnAliyun /\ ~isStreamCall
            THEN /\ "enable_thinking" \in DOMAIN requestBody
                 /\ requestBody.enable_thinking = FALSE
            ELSE /\ "enable_thinking" \notin DOMAIN requestBody
                 /\ chatConfig.Source = ModelSourceRemote =>
                       DOMAIN requestBody = {"model", "messages", "stream"}

\* C15's case: the non-stream request of qwen3-32b on the Aliyun endpoint
\* has been sent.
C15_Witness ==
    /\ cpc = "done"
    /\ ~isStreamCall
    /\ chatConfig.Source = ModelSourceRemote
    /\ chatConfig.ModelName = <<"qwen3-", "32b">>
    /\ chatConfig.BaseURL = AliyunBaseURL
    /\ requestBody # NoBody

\* C20: a successful non-stream Chat whose backend reported a positive
\* prompt count and a positive completion count returns a usage with
\* PromptTokens, CompletionTokens and TotalTokens above 0 and TotalTokens =
\* PromptTokens + CompletionTokens.
C20_UsageAddsUp ==
    (/\ cpc = "done"
     /\ ~isStreamCall
     /\ chatResponse # ChatError
     /\ IF chatConfig.Source = ModelSourceLocal
        THEN backendReply.PromptEvalCount > 0 /\ backendReply.EvalCount > 0
        ELSE backendReply.Usage.PromptTokens > 0
             /\ backendReply.Usage.CompletionTokens > 0)
        => /\ chatResponse.Usage.PromptTokens > 0
           /\ chatResponse.Usage.CompletionTokens > 0
           /\ chatResponse.Usage.TotalTokens > 0
           /\ chatResponse.Usage.TotalTokens
                 = chatResponse.Usage.PromptTokens + chatResponse.Usage.CompletionTokens

(***************************************************************************)
(* The claims about InitializationHandler.Initialize.                      *)
(***************************************************************************)
\* C18: once an Initialize request with a chunk overlap >= the chunk size
\* or with no separators is past the validation, the handler has returned
\* with a bad_request error and no tenant, model or knowledge-base call has
\* been made; the response written for it is that bad_request error.
C18_InvalidSplittingRejected ==
    (/\ ipc \notin {"idle", "validate"}
     /\ \/ initRequest.DocumentSplitting.ChunkOverlap
              >= initRequest.DocumentSplitting.ChunkSize
        \/ initRequest.DocumentSplitting.Separators = <<>>)
        => /\ mutations = <<>>
           /\ ipc \in {"returned", "done"}
           /\ Len(ctxErrors) = 1 /\ ctxErrors[1].code = "bad_request"
           /\ ipc = "done" =>
                 /\ initResponse.success = FALSE
                 /\ initResponse.error.code = "bad_request"

\* C18's case: a request that binds and has no multimodal or rerank part,
\* rejected for its chunk overlap.
C18_Witness ==
    /\ ipc = "done"
    /\ initRequest.DocumentSplitting.ChunkSize = 100
    /\ initRequest.DocumentSplitting.ChunkOverlap = 200
    /\ initRequest.DocumentSplitting.Separators # <<>>
    /\ ~initRequest.Multimodal.Enabled
    /\ initRequest.Rerank = "disabled"
    /\ initResponse.success = FALSE

\* C28: the default tenant has at most one model of each model type.
C28_OneModelPerType ==
    ipc # "idle" => \A t \in ModelTypes : initStore.models[t] <= 1

\* C29: an Initialize request with multimodal disabled and no VLM
\* configuration does not fail at run time.
C29_NoVLMNoFailure ==
    (/\ ipc # "idle"
     /\ ~initRequest.Multimodal.Enabled
     /\ initRequest.Multimodal.VLM = "nil")
        => ipc # "panicked"

(***************************************************************************)
(* The claims about concurrent calls of the Redis manager.                 *)
(***************************************************************************)
\* how often a symbol occurs in a content
Occurrences(text, c) == Cardinality({k \in 1..Len(text) : text[k] = c})

\* C23: when concurrent UpdateStream and CompleteStream calls on a stored
\* key have all returned, the content holds every appended delta exactly
\* once and is_completed is true if one of the calls was a CompleteStream.
C23_UpdatesAtomic ==
    (/\ callers # <<>>
     /\ \A i \in CallIds : callers[i].pc = "done"
     /\ stored # Nil)
        => /\ \A c \in {"x", "y"} :
                 Occurrences(Unmarshal(stored).Content, c)
                    = Cardinality({i \in CallIds : callers[i].call.content = <<c>>})
           /\ (\E i \in CallIds : callers[i].call.op = "CompleteStream")
                 => Unmarshal(stored).IsCompleted

(***************************************************************************)
(* The claims about the download tasks.                                    *)
(***************************************************************************)
\* C25: at any time at most one task per model name is pending or
\* downloading.
C25_OneRunningTaskPerModel ==
    downloadTasks # <<>> =>
        \A m \in OllamaModels :
            Cardinality({t \in TaskIds :
                            /\ downloadTasks[t] # NoTask
                            /\ downloadTasks[t].ModelName = m
                            /\ downloadTasks[t].Status \in {"pending", "downloading"}}) <= 1

\* C26: every task goes pending -> downloading -> completed or failed: its
\* status changes only along these arrows and never once it is completed
\* or failed, its EndTime is set exactly when it is completed or failed, a
\* completed task has progress 100, and every task gets completed or failed.
C26_TaskLifecycle ==
    /\ [](\A t \in TaskIds :
             (downloadTasks # <<>> /\ downloadTasks[t] # NoTask)
                 => /\ downloadTasks[t].EndTime # "nil"
                          <=> downloadTasks[t].Status \in {"completed", "failed"}
                    /\ downloadTasks[t].Status = "completed"
                          => downloadTasks[t].Progress = 100)
    /\ [][\A t \in TaskIds :
             (downloadTasks[t] # NoTask
              /\ downloadTasks'[t].Status # downloadTasks[t].Status)
                 => <<downloadTasks[t].Status, downloadTasks'[t].Status>>
                       \in {<<"pending", "downloading">>,
                            <<"downloading", "completed">>,
                            <<"downloading", "failed">>}]_vars
    /\ \A t \in TaskIds :
          [](downloadTasks[t] # NoTask
                => <>(/\ downloadTasks[t] # NoTask
                      /\ downloadTasks[t].Status \in {"completed", "failed"}))

\* C26's case: one task has completed and another has failed.
C26_Witness ==
    /\ downloadTasks # <<>>
    /\ \E t, u \in TaskIds :
          /\ downloadTasks[t] # NoTask /\ downloadTasks[t].Status = "completed"
          /\ downloadTasks[u] # NoTask /\ downloadTasks[u].Status = "failed"

(***************************************************************************)
(* The claims about TestMultimodalFunction.                                *)
(***************************************************************************)
\* C27: whatever the form holds, the configuration sent to DocReader has
\* 100 <= chunk_size <= 10000 and 0 <= chunk_overlap < chunk_size.
C27_SentConfigInRange ==
    readConfig.sent =>
        /\ MinChunkSize <= readConfig.ChunkSize
        /\ readConfig.ChunkSize <= MaxChunkSize
        /\ 0 <= readConfig.ChunkOverlap
        /\ readConfig.ChunkOverlap < readConfig.ChunkSize

(***************************************************************************)
(* The claims about the recall metric.                                     *)
(***************************************************************************)
\* the ids of the input that are in some ground-truth set
InGroundTruth(input) ==
    UNION {ToSet(input.RetrievalGT[i]) : i \in DOMAIN input.RetrievalGT}

\* the sum over the ground-truth sets of retrieved / size, times Scale
RetrievedParts(input) ==
    LET retrieved == ToSet(input.RetrievalIDs)
        part(i) == (Cardinality(ToSet(input.RetrievalGT[i]) \cap retrieved) * Scale)
                       \div Cardinality(ToSet(input.RetrievalGT[i]))
        sum[k \in 0..Len(input.RetrievalGT)] ==
            IF k = 0 THEN 0 ELSE sum[k - 1] + part(k)
    IN  sum[Len(input.RetrievalGT)]

Segments(s) ==
    LET split == Split(s)
        trimmed == [i \in DOMAIN split |-> TrimSpace(split[i])]
    IN  SelectSeq(trimmed, LAMBDA piece : piece # <<>>)

\* C30: splitSentences returns, in order, every non-empty trimmed segment
\* of the text between periods: n segments give n sentences.
C30_EverySegmentReturned ==
    sentences # NoSentences => sentences.list = Segments(sentenceText)

====
